---- MODULE Spec2Model ----
(***************************************************************************)
(* HaloDesk local gateway (src-tauri/src/router.rs, storage.rs): the chat  *)
(* handler, model resolution, request transformation, the streaming        *)
(* decoder of the upstream byte stream and the history write.              *)
(*                                                                         *)
(* Text is a sequence of characters.  A character of the upstream byte     *)
(* stream that is written as a longer string ("data:", "[DONE]", the JSON  *)
(* fragments below) stands for that run of ASCII bytes: the decoder only   *)
(* appends decoded bytes to its buffer, and from_utf8_lossy is the         *)
(* identity on ASCII, so a chunk boundary inside such a run behaves as one *)
(* at its edge.  The two bytes of a two-byte UTF-8 character are separate. *)
(***************************************************************************)
EXTENDS Integers, Sequences, FiniteSets, TLC

\* ------------------------------------------------------------------ bounds
NumTurns == 2
MaxOverrideLen == 3
MaxMessages == 3
MaxFrames == 2

Turns == 1..NumTurns
NumCallers == 2
Callers == 1..NumCallers

\* Option<T>: None is the empty sequence, Some(x) the one-element sequence
None == <<>>
Some(x) == <<x>>
IsSome(o) == o # <<>>
Unwrap(o) == o[1]

\* ------------------------------------------------------- text primitives
\* char::is_whitespace, for the characters the model uses
IsSpace(c) == c \in {" ", "\n"}

RECURSIVE TrimStart(_)
TrimStart(s) ==
  IF s # <<>> /\ IsSpace(Head(s)) THEN TrimStart(Tail(s)) ELSE s

RECURSIVE TrimEnd(_)
TrimEnd(s) ==
  IF s # <<>> /\ IsSpace(s[Len(s)]) THEN TrimEnd(SubSeq(s, 1, Len(s) - 1)) ELSE s

\* str::trim
Trim(s) == TrimEnd(TrimStart(s))

\* str::starts_with
StartsWith(s, p) == Len(s) >= Len(p) /\ SubSeq(s, 1, Len(p)) = p

\* all sequences over S of length at most n
RECURSIVE SeqsUpTo(_, _)
SeqsUpTo(S, n) ==
  IF n = 0 THEN {<<>>}
  ELSE LET shorter == SeqsUpTo(S, n - 1)
       IN shorter \cup {Append(s, c) : s \in shorter, c \in S}

RECURSIVE Concat(_)
Concat(ss) == IF ss = <<>> THEN <<>> ELSE Head(ss) \o Concat(Tail(ss))

\* --------------------------------------------------------- model resolver
\* const PREFIX: &str = "openrouter:"; "openrouter" is one character here
PREFIX == <<"openrouter", ":">>

split_provider_by_colon(model_id) ==
  IF \E i \in 1..Len(model_id) : model_id[i] = ":"
  THEN LET i == CHOOSE k \in 1..Len(model_id) :
                  model_id[k] = ":" /\ \A j \in 1..(k - 1) : model_id[j] # ":"
       IN [provider |-> SubSeq(model_id, 1, i - 1),
           model |-> SubSeq(model_id, i + 1, Len(model_id))]
  ELSE [provider |-> <<"openrouter">>, model |-> model_id]

split_provider(model_id) ==
  IF StartsWith(model_id, PREFIX)
  THEN [provider |-> <<"openrouter">>,
        model |-> SubSeq(model_id, Len(PREFIX) + 1, Len(model_id))]
  ELSE [provider |-> <<"openrouter">>, model |-> model_id]

resolve_model_untrimmed(req, cfg) ==
  IF IsSome(req.model_override) /\ Trim(Unwrap(req.model_override)) # <<>>
  THEN [ok |-> TRUE, value |-> Unwrap(req.model_override)]
  ELSE IF IsSome(req.image)
  THEN IF Trim(cfg.vision_default_model) = <<>>
       THEN [ok |-> FALSE, value |-> "Vision default model not set."]
       ELSE [ok |-> TRUE, value |-> cfg.vision_default_model]
  ELSE IF Trim(cfg.text_default_model) = <<>>
       THEN [ok |-> FALSE, value |-> "Text default model not set."]
       ELSE [ok |-> TRUE, value |-> cfg.text_default_model]

resolve_model_image_first(req, cfg) ==
  IF IsSome(req.image) /\ Trim(cfg.vision_default_model) # <<>>
  THEN [ok |-> TRUE, value |-> cfg.vision_default_model]
  ELSE IF IsSome(req.model_override) /\ Trim(Unwrap(req.model_override)) # <<>>
  THEN [ok |-> TRUE, value |-> Trim(Unwrap(req.model_override))]
  ELSE IF Trim(cfg.text_default_model) = <<>>
       THEN [ok |-> FALSE, value |-> "Text default model not set."]
       ELSE [ok |-> TRUE, value |-> cfg.text_default_model]

resolve_model(req, cfg) ==
  IF IsSome(req.model_override) /\ Trim(Unwrap(req.model_override)) # <<>>
  THEN [ok |-> TRUE, value |-> Trim(Unwrap(req.model_override))]
  ELSE IF IsSome(req.image)
  THEN IF Trim(cfg.vision_default_model) = <<>>
       THEN [ok |-> FALSE, value |-> "Vision default model not set."]
       ELSE [ok |-> TRUE, value |-> cfg.vision_default_model]
  ELSE IF Trim(cfg.text_default_model) = <<>>
       THEN [ok |-> FALSE, value |-> "Text default model not set."]
       ELSE [ok |-> TRUE, value |-> cfg.text_default_model]

\* keyring lookup: secret is None when the entry holds no password
get_openrouter_key(secret) ==
  IF secret = None \/ Trim(Unwrap(secret)) = <<>>
  THEN [ok |-> FALSE, value |-> "OpenRouter key missing. Set it in Settings."]
  ELSE [ok |-> TRUE, value |-> Unwrap(secret)]

\* -------------------------------------------------- request transformation
\* format!("data:{};base64,{}", img.mime, img.base64)
DataUrl(img) == <<"data:", img.mime, ";base64,", img.base64>>

\* serde_json::json!(msg.content)
PlainContent(content) == [kind |-> "string", text |-> content]

\* json!([{type: text, text}, {type: image_url, image_url: {url}}])
ImageContent(text, img) == [kind |-> "parts", text |-> text, url |-> DataUrl(img)]

\* messages.iter().rposition(|m| m.role == "user"); 0 when there is none
LastUserIndex(messages) ==
  LET users == {i \in 1..Len(messages) : messages[i].role = "user"}
  IN IF users = {} THEN 0 ELSE CHOOSE i \in users : \A j \in users : j <= i

to_openrouter_messages_first_user(messages, image) ==
  LET users == {i \in 1..Len(messages) : messages[i].role = "user"}
      target == IF users = {} THEN 0 ELSE CHOOSE i \in users : \A j \in users : i <= j
      converted == [i \in 1..Len(messages) |->
                      IF i = target /\ IsSome(image)
                      THEN [role |-> messages[i].role,
                            content |-> ImageContent(messages[i].content, Unwrap(image))]
                      ELSE [role |-> messages[i].role,
                            content |-> PlainContent(messages[i].content)]]
  IN IF IsSome(image) /\ target = 0
     THEN Append(converted, [role |-> "user", content |-> ImageContent(<<>>, Unwrap(image))])
     ELSE converted

to_openrouter_messages(messages, image) ==
  LET last_user_index == LastUserIndex(messages)
      converted == [i \in 1..Len(messages) |->
                      IF i = last_user_index /\ IsSome(image)
                      THEN [role |-> messages[i].role,
                            content |-> ImageContent(messages[i].content, Unwrap(image))]
                      ELSE [role |-> messages[i].role,
                            content |-> PlainContent(messages[i].content)]]
      image_attached == IsSome(image) /\ last_user_index # 0
  IN IF IsSome(image) /\ ~image_attached
     THEN Append(converted, [role |-> "user", content |-> ImageContent(<<>>, Unwrap(image))])
     ELSE converted

\* ------------------------------------------------- upstream wire format
\* Bytes of the upstream stream.  NL is 0x0A; C3 A9 is U+00E9 in UTF-8.
NL == "\n"
DataPrefix == "data:"
DoneSentinel == "[DONE]"
JsonOpen == "{\"choices\":[{\"delta\":{\"content\":\""
JsonClose == "\"}}]}"
JsonFinish == "{\"choices\":[{\"finish_reason\":\"length\"}]}"
ByteC3 == "0xC3"
ByteA9 == "0xA9"
CharE9 == "U+00E9"
Replacement == "U+FFFD"

\* characters that may stand unescaped inside a JSON string
StringChars == {"a", " ", CharE9, Replacement, DataPrefix, DoneSentinel}

\* String::from_utf8_lossy(&chunk): a complete two-byte character decodes,
\* every byte that is not part of one becomes U+FFFD
RECURSIVE from_utf8_lossy(_)
from_utf8_lossy(bytes) ==
  IF bytes = <<>> THEN <<>>
  ELSE IF Head(bytes) = ByteC3
  THEN IF Len(bytes) >= 2 /\ bytes[2] = ByteA9
       THEN <<CharE9>> \o from_utf8_lossy(SubSeq(bytes, 3, Len(bytes)))
       ELSE <<Replacement>> \o from_utf8_lossy(Tail(bytes))
  ELSE IF Head(bytes) = ByteA9
  THEN <<Replacement>> \o from_utf8_lossy(Tail(bytes))
  ELSE <<Head(bytes)>> \o from_utf8_lossy(Tail(bytes))

\* buffer.find("\n\n"): index of the first of two adjacent newlines, 0 if none
FindBoundary(buffer) ==
  LET hits == {i \in 1..(Len(buffer) - 1) : buffer[i] = NL /\ buffer[i + 1] = NL}
  IN IF hits = {} THEN 0 ELSE CHOOSE i \in hits : \A j \in hits : i <= j

\* str::lines: the pieces between newlines, without a final empty piece
RECURSIVE SplitLines(_, _)
SplitLines(block, cur) ==
  IF block = <<>> THEN (IF cur = <<>> THEN <<>> ELSE <<cur>>)
  ELSE IF Head(block) = NL THEN <<cur>> \o SplitLines(Tail(block), <<>>)
  ELSE SplitLines(Tail(block), Append(cur, Head(block)))

Lines(block) == SplitLines(block, <<>>)

ParsePayload_without_reason(data) ==
  IF /\ Len(data) >= 2
     /\ data[1] = JsonOpen
     /\ data[Len(data)] = JsonClose
     /\ \A i \in 2..(Len(data) - 1) : data[i] \in StringChars
  THEN [ok |-> TRUE, reason |-> None, delta |-> Some(SubSeq(data, 2, Len(data) - 1))]
  ELSE [ok |-> data = <<JsonFinish>>, reason |-> None, delta |-> None]

ParsePayload_takes_malformed_as_text(data) ==
  IF data = <<JsonFinish>>
  THEN [ok |-> TRUE, reason |-> Some("length"), delta |-> None]
  ELSE IF /\ Len(data) >= 2
          /\ data[1] = JsonOpen
          /\ data[Len(data)] = JsonClose
          /\ \A i \in 2..(Len(data) - 1) : data[i] \in StringChars
  THEN [ok |-> TRUE, reason |-> None, delta |-> Some(SubSeq(data, 2, Len(data) - 1))]
  ELSE [ok |-> TRUE, reason |-> None, delta |-> Some(data)]

\* serde_json::from_str::<Value>(data) with the two lookups of the decoder:
\* value["choices"][0]["finish_reason"].as_str() and
\* value["choices"][0]["delta"]["content"].as_str()
ParsePayload(data) ==
  IF data = <<JsonFinish>>
  THEN [ok |-> TRUE, reason |-> Some("length"), delta |-> None]
  ELSE IF /\ Len(data) >= 2
          /\ data[1] = JsonOpen
          /\ data[Len(data)] = JsonClose
          /\ \A i \in 2..(Len(data) - 1) : data[i] \in StringChars
  THEN [ok |-> TRUE, reason |-> None, delta |-> Some(SubSeq(data, 2, Len(data) - 1))]
  ELSE [ok |-> FALSE, reason |-> None, delta |-> None]

MetaEvent(model_id) ==
  [event |-> "meta", data |-> [model |-> model_id, provider |-> "openrouter"]]
DeltaEvent_trimmed(text) == [event |-> "delta", data |-> [text |-> Trim(text)]]
DeltaEvent(text) == [event |-> "delta", data |-> [text |-> text]]
DoneEvent(reason) == [event |-> "done", data |-> [finish_reason |-> reason]]
ErrorDoneEvent(detail) ==
  [event |-> "done", data |-> [finish_reason |-> "error", error |-> detail]]

\* The body of the stream! block between two suspension points: the decoder
\* runs over the pending lines of the current block and then over the frames
\* left in the buffer, until it yields a delta (at "yielded"), meets [DONE]
\* (at "store": store_history is awaited), or needs more bytes (at "read").
\* state = [buffer, lines, full, finish_reason, events, at], taken as a value
\* once and then run as d
RECURSIVE Decode(_)
Decode(state) ==
  LET Run(d) ==
        IF d.lines # <<>>
        THEN LET line == Head(d.lines)
                 rest == [d EXCEPT !.lines = Tail(d.lines)]
             IN IF line # <<>> /\ Head(line) = DataPrefix
                THEN LET data == Trim(Tail(line))
                         value == ParsePayload(data)
                         seen == IF IsSome(value.reason)
                                 THEN [rest EXCEPT !.finish_reason = Unwrap(value.reason)]
                                 ELSE rest
                     IN IF data = <<DoneSentinel>>
                        THEN [rest EXCEPT !.at = "store"]
                        ELSE IF ~value.ok THEN Decode(rest)
                        ELSE IF IsSome(value.delta) /\ Unwrap(value.delta) # <<>>
                        THEN [seen EXCEPT !.full = @ \o Unwrap(value.delta),
                                          !.events = Append(@, DeltaEvent(Unwrap(value.delta))),
                                          !.at = "yielded"]
                        ELSE Decode(seen)
                ELSE Decode(rest)
        ELSE LET boundary == FindBoundary(d.buffer)
             IN IF boundary = 0
                THEN [d EXCEPT !.at = "read"]
                ELSE IF Lines(SubSeq(d.buffer, 1, boundary - 1)) = <<>>
                THEN Decode([d EXCEPT !.buffer = SubSeq(d.buffer, boundary + 2, Len(d.buffer))])
                ELSE Decode([d EXCEPT !.lines = Lines(SubSeq(d.buffer, 1, boundary - 1)),
                                      !.buffer = SubSeq(d.buffer, boundary + 2, Len(d.buffer))])
  IN CHOOSE out \in {Run(d) : d \in {state}} : TRUE

\* ------------------------------------------------------------- storage
\* serde_json::to_string of a message list: the text kept in messages_json
JsonMessage(m) ==
  <<"{", "\"role\":", "\"", m.role, "\"", ",", "\"content\":", "\"">> \o m.content \o <<"\"", "}">>

RECURSIVE JsonMessages(_)
JsonMessages(ms) ==
  IF ms = <<>> THEN <<>>
  ELSE IF Len(ms) = 1 THEN JsonMessage(ms[1])
  ELSE JsonMessage(ms[1]) \o <<",">> \o JsonMessages(Tail(ms))

to_string(ms) == <<"[">> \o JsonMessages(ms) \o <<"]">>

\* the uuid a chat turn's store_history draws, and the task that holds the lock
ChatId(t) == <<"chat", t>>
ChatTask(t) == <<"chat", t>>

HistoryRow_appends_always(messages, assistant, model, provider, id, created_at) ==
  [id |-> id, created_at |-> created_at,
   messages_json |-> to_string(Append(messages, [role |-> "assistant", content |-> assistant])),
   model |-> Some(model), provider |-> Some(provider)]

\* store_history up to the insert: the row it is about to write
HistoryRow(messages, assistant, model, provider, id, created_at) ==
  LET all == IF Trim(assistant) # <<>>
             THEN Append(messages, [role |-> "assistant", content |-> assistant])
             ELSE messages
  IN [id |-> id, created_at |-> created_at, messages_json |-> to_string(all),
      model |-> Some(model), provider |-> Some(provider)]

\* ---------------------------------------------------- memory: JSON values
\* A serde_json::Value of a request payload: a string, an object of named
\* members, or any other value, which is kept as its serialization.
JsonString(s) == [kind |-> "string", text |-> s, fields |-> <<>>]
JsonOther(s) == [kind |-> "other", text |-> s, fields |-> <<>>]
JsonObject(f) == [kind |-> "object", text |-> <<>>, fields |-> f]

\* Value::get(name): a member of an object, None of anything else
get(v, name) ==
  IF v.kind = "object" /\ name \in DOMAIN v.fields THEN Some(v.fields[name]) ELSE None

\* Value::as_str
as_str(v) == IF v.kind = "string" THEN Some(v.text) ELSE None

\* the member names of the payloads, in the order an object serializes them
FieldOrder ==
  <<"constraints", "key", "name", "routing_policy", "system_prompt", "tags", "text", "value">>

\* Value::to_string of a string or other value that is not an object
ScalarText(v) == IF v.kind = "string" THEN <<"\"">> \o v.text \o <<"\"">> ELSE v.text

RECURSIVE MembersText(_, _, _)
MembersText(v, names, first) ==
  IF names = <<>> THEN <<>>
  ELSE IF Head(names) \notin DOMAIN v.fields THEN MembersText(v, Tail(names), first)
  ELSE (IF first THEN <<>> ELSE <<",">>)
       \o <<"\"", Head(names), "\"", ":">> \o ScalarText(v.fields[Head(names)])
       \o MembersText(v, Tail(names), FALSE)

\* Value::to_string
ValueText(v) ==
  IF v.kind = "object" THEN <<"{">> \o MembersText(v, FieldOrder, TRUE) \o <<"}">>
  ELSE ScalarText(v)

\* .and_then(|v| v.as_str()).unwrap_or(default)
StrOr(payload, name, default) ==
  LET member == get(payload, name)
  IN IF IsSome(member) /\ IsSome(as_str(Unwrap(member)))
     THEN Unwrap(as_str(Unwrap(member)))
     ELSE default

\* .map(|v| v.to_string()).unwrap_or_else(|| default)
TextOr(payload, name, default) ==
  LET member == get(payload, name)
  IN IF IsSome(member) THEN ValueText(Unwrap(member)) ELSE default

\* ------------------------------------------------------ memory: the store
\* the uuid a memory_store call of caller m draws, and the task of caller m
MemoryId(m) == <<"memory", m>>
MemoryTask(m) == <<"memory", m>>

\* the rows memory_store inserts, one per supported type
StoredHistoryRow(payload, id, created_at) ==
  [id |-> id, created_at |-> created_at, messages_json |-> ValueText(payload),
   model |-> None, provider |-> None]

PinnedRow(payload, id, created_at) ==
  [id |-> id, created_at |-> created_at,
   text |-> StrOr(payload, "text", <<>>),
   tags_json |-> Some(TextOr(payload, "tags", <<"[", "]">>))]

PresetRow_unnamed(payload, id, created_at) ==
  [id |-> id, created_at |-> created_at,
   name |-> StrOr(payload, "name", <<>>),
   system_prompt |-> Some(StrOr(payload, "system_prompt", <<>>)),
   constraints_json |-> Some(TextOr(payload, "constraints", <<"{", "}">>)),
   routing_policy_json |-> Some(TextOr(payload, "routing_policy", <<"{", "}">>))]

PresetRow(payload, id, created_at) ==
  [id |-> id, created_at |-> created_at,
   name |-> StrOr(payload, "name", <<"Untitled">>),
   system_prompt |-> Some(StrOr(payload, "system_prompt", <<>>)),
   constraints_json |-> Some(TextOr(payload, "constraints", <<"{", "}">>)),
   routing_policy_json |-> Some(TextOr(payload, "routing_policy", <<"{", "}">>))]

SettingsRow(payload, id, created_at) ==
  [id |-> id, created_at |-> created_at,
   key |-> StrOr(payload, "key", <<"unknown">>),
   value_json |-> TextOr(payload, "value", <<"null">>)]

\* the four tables as one value
Database(h, p, r, s) == [history |-> h, pinned |-> p, presets |-> r, settings |-> s]

memory_store_files_unknown_as_pinned(db, r, id, created_at, ok) ==
  IF ~ok
  THEN [ok |-> FALSE, db |-> db, value |-> "storage error"]
  ELSE [ok |-> TRUE,
        db |-> [db EXCEPT !.pinned = Append(@, PinnedRow(r.payload, id, created_at))],
        value |-> [id |-> id, stored_at |-> created_at]]

\* memory_store once the lock is held: the insert that r.type selects is
\* executed and succeeds (ok) or fails; any other type is an error
memory_store(db, r, id, created_at, ok) ==
  LET stored(next) == IF ok
                      THEN [ok |-> TRUE, db |-> next,
                            value |-> [id |-> id, stored_at |-> created_at]]
                      ELSE [ok |-> FALSE, db |-> db, value |-> "storage error"]
  IN CASE r.type = "history" ->
            stored([db EXCEPT !.history = Append(@, StoredHistoryRow(r.payload, id, created_at))])
       [] r.type = "pinned" ->
            stored([db EXCEPT !.pinned = Append(@, PinnedRow(r.payload, id, created_at))])
       [] r.type = "preset" ->
            stored([db EXCEPT !.presets = Append(@, PresetRow(r.payload, id, created_at))])
       [] r.type = "settings" ->
            stored([db EXCEPT !.settings = Append(@, SettingsRow(r.payload, id, created_at))])
       [] OTHER -> [ok |-> FALSE, db |-> db, value |-> "Unsupported memory type."]

\* ------------------------------------------------------ memory: the query
\* the limit of a query that names none
DefaultLimit == 20

\* SQLite's LIKE compares ASCII letters without regard to case
AsciiLower(c) == CASE c = "A" -> "a" [] c = "B" -> "b" [] OTHER -> c

\* text LIKE pattern: % stands for any run of characters, _ for any one
RECURSIVE LikeMatch(_, _)
LikeMatch(pattern, text) ==
  IF pattern = <<>> THEN text = <<>>
  ELSE IF Head(pattern) = "%"
  THEN LikeMatch(Tail(pattern), text) \/ (text # <<>> /\ LikeMatch(pattern, Tail(text)))
  ELSE IF text = <<>> THEN FALSE
  ELSE IF Head(pattern) = "_" THEN LikeMatch(Tail(pattern), Tail(text))
  ELSE AsciiLower(Head(pattern)) = AsciiLower(Head(text)) /\ LikeMatch(Tail(pattern), Tail(text))

\* LIMIT n: the first n rows, none for 0, and all of them for a negative n
Limit(rows, n) ==
  IF n < 0 \/ n >= Len(rows) THEN rows ELSE SubSeq(rows, 1, n)

\* SELECT .. WHERE key LIKE like ORDER BY created_at DESC: the rows whose key
\* matches, latest first, in every order SQLite may give rows of one created_at
Select(table, keys, like) ==
  LET hits == {i \in DOMAIN table : LikeMatch(like, keys[i])}
      n == Cardinality(hits)
      orders == {f \in [1..n -> hits] :
                   /\ \A i, j \in 1..n : i # j => f[i] # f[j]
                   /\ \A i, j \in 1..n :
                        i < j => table[f[i]].created_at >= table[f[j]].created_at}
  IN {[k \in 1..n |-> table[f[k]]] : f \in orders}

\* the item made of a row: stored JSON text stands for the value parsed of it
HistoryItem(row) ==
  [type |-> "history",
   payload |-> [id |-> row.id, created_at |-> row.created_at, messages |-> row.messages_json,
                model |-> row.model, provider |-> row.provider]]

PinnedItem(row) ==
  [type |-> "pinned",
   payload |-> [id |-> row.id, created_at |-> row.created_at, text |-> row.text,
                tags |-> IF IsSome(row.tags_json) THEN Unwrap(row.tags_json) ELSE <<"[", "]">>]]

PresetItem(row) ==
  [type |-> "preset",
   payload |-> [id |-> row.id, created_at |-> row.created_at, name |-> row.name,
                system_prompt |-> row.system_prompt,
                constraints |-> IF IsSome(row.constraints_json)
                                THEN Unwrap(row.constraints_json) ELSE <<"{", "}">>,
                routing_policy |-> IF IsSome(row.routing_policy_json)
                                   THEN Unwrap(row.routing_policy_json) ELSE <<"{", "}">>]]

HistoryItems(rows) == [i \in DOMAIN rows |-> HistoryItem(rows[i])]
PinnedItems(rows) == [i \in DOMAIN rows |-> PinnedItem(rows[i])]
PresetItems(rows) == [i \in DOMAIN rows |-> PresetItem(rows[i])]

memory_query_limits_the_whole(db, r) ==
  LET limit == IF IsSome(r.limit) THEN Unwrap(r.limit) ELSE DefaultLimit
      like == <<"%">> \o r.query \o <<"%">>
  IN {Limit(HistoryItems(h) \o PinnedItems(p) \o PresetItems(q), limit) :
        h \in Select(db.history, [i \in DOMAIN db.history |-> db.history[i].messages_json], like),
        p \in Select(db.pinned, [i \in DOMAIN db.pinned |-> db.pinned[i].text], like),
        q \in Select(db.presets, [i \in DOMAIN db.presets |-> db.presets[i].name], like)}

\* memory_query once the lock is held: every item list the three SELECTs can
\* give, history first, then pinned, then presets; settings is not read
memory_query(db, r) ==
  LET limit == IF IsSome(r.limit) THEN Unwrap(r.limit) ELSE DefaultLimit
      like == <<"%">> \o r.query \o <<"%">>
  IN {HistoryItems(Limit(h, limit)) \o PinnedItems(Limit(p, limit))
        \o PresetItems(Limit(q, limit)) :
        h \in Select(db.history, [i \in DOMAIN db.history |-> db.history[i].messages_json], like),
        p \in Select(db.pinned, [i \in DOMAIN db.pinned |-> db.pinned[i].text], like),
        q \in Select(db.presets, [i \in DOMAIN db.presets |-> db.presets[i].name], like)}

\* ------------------------------------------------------------ locks
\* tokio's RwLock: the guards handed out and the waiters in arrival order
FreeLock == [readers |-> {}, writer |-> None, queue |-> <<>>]

ConfigTask(u) == <<"set_config", u>>

\* the lock goes to the waiters at the head of the queue, as far as it can
RECURSIVE Grant(_)
Grant(l) ==
  IF l.queue = <<>> \/ IsSome(l.writer)
  THEN l
  ELSE LET head == Head(l.queue)
       IN IF ~head.write
          THEN Grant([l EXCEPT !.readers = @ \cup {head.task}, !.queue = Tail(@)])
          ELSE IF l.readers = {}
          THEN [l EXCEPT !.writer = Some(head.task), !.queue = Tail(@)]
          ELSE l

\* RwLock::read and RwLock::write: the task joins the queue
read(l, task) == Grant([l EXCEPT !.queue = Append(@, [task |-> task, write |-> FALSE])])

write(l, task) == Grant([l EXCEPT !.queue = Append(@, [task |-> task, write |-> TRUE])])

\* a guard, or a waiting acquire, of the task is dropped
Drop(l, task) ==
  Grant([l EXCEPT !.readers = @ \ {task},
                  !.writer = IF @ = Some(task) THEN None ELSE @,
                  !.queue = SelectSeq(@, LAMBDA w : w.task # task)])

\* HeaderValue::from_str(&format!("Bearer {}", key)): control characters
\* are not allowed in a header value
HeaderValid(key) == \A i \in 1..Len(key) : key[i] # NL

\* err.to_string() of a failed read of the upstream body
ReadError == "error decoding response body"

\* error_response(status, code, message)
error_response(status, code, message) ==
  [status |-> status, body |-> [error |-> message, code |-> code]]

\* ------------------------------------------------------------------ state
VARIABLES
  config,         \* AppConfig behind RouterState.config
  secret,         \* the password of keyring entry HaloRouter/openrouter
  read_sizes,     \* chunk lengths the upstream transport may deliver
  req,            \* req[t]: the ChatRequest of turn t
  script,         \* script[t]: the bytes upstream sends in reply to turn t
  pc,             \* pc[t]: where the task of turn t is suspended
  model_id,       \* model_id[t]: the resolved model identifier
  provider,       \* provider[t], model[t]: the two parts split_provider gives
  model,
  payload,        \* payload[t]: the OpenRouterChatRequest sent upstream
  response,       \* response[t]: the HTTP response of the chat handler
  pos,            \* pos[t]: bytes of script[t] already delivered
  received,       \* received[t]: all text pushed into buffer[t] so far
  buffer,         \* buffer[t], lines[t], full[t], finish_reason[t]: locals
  lines,          \*   of the stream! block (lines: rest of block.lines())
  full,
  finish_reason,
  events,         \* events[t]: the SSE events yielded so far
  term,           \* term[t]: how the turn came to its end
  store_calls,    \* store_calls[t]: the assistant text of each store_history call
  stamp,          \* stamp[t]: created_at of the store_history call of turn t
  key_lookups,    \* key_lookups[t]: reads of the keyring entry made for turn t
  db_lock,        \* holder of RouterState.db's mutex
  history,        \* rows of tables history, pinned, presets and settings, in
  pinned,         \*   insertion order
  presets,
  settings,
  now,            \* Utc::now()
  mreq,           \* mreq[m]: the memory request of caller m
  mpc,            \* mpc[m]: where its handler stands
  mstamp,         \* mstamp[m]: the created_at its handler took
  mresp,          \* mresp[m]: the HTTP response of its handler
  config_lock,    \* the RwLock of RouterState.config and AppState.config
  config_file,    \* the configuration document at AppState.config_path
  ureq,           \* ureq[u]: the AppConfig handed to set_config call u
  upc,            \* upc[u]: where that command stands
  uresp           \* uresp[u]: its result

vars == <<config, secret, read_sizes, req, script, pc, model_id, provider, model,
          payload, response, pos, received, buffer, lines, full, finish_reason, events, term,
          store_calls, stamp, key_lookups, db_lock, history, pinned, presets, settings, now,
          mreq, mpc, mstamp, mresp, config_lock, config_file, ureq, upc, uresp>>

streamVars == <<buffer, lines, full, finish_reason, events>>
memVars == <<pinned, presets, settings, now, mreq, mpc, mstamp, mresp>>
updVars == <<config_file, ureq, upc, uresp>>
\* what no step of a chat turn changes
fixedVars == <<config, secret, read_sizes, req, script, memVars, updVars>>
\* what no step of a chat turn after the configuration is read changes
inputVars == <<fixedVars, config_lock>>
resolvedVars == <<model_id, provider, model>>

Decoder(t) ==
  [buffer |-> buffer[t], lines |-> lines[t], full |-> full[t],
   finish_reason |-> finish_reason[t], events |-> events[t], at |-> pc[t]]

\* the stream! block runs on from decoder state d to its next suspension
Advance(t, d) ==
  /\ buffer' = [buffer EXCEPT ![t] = d.buffer]
  /\ lines' = [lines EXCEPT ![t] = d.lines]
  /\ full' = [full EXCEPT ![t] = d.full]
  /\ finish_reason' = [finish_reason EXCEPT ![t] = d.finish_reason]
  /\ events' = [events EXCEPT ![t] = d.events]
  /\ pc' = [pc EXCEPT ![t] = d.at]
  /\ IF d.at = "store"
     THEN /\ term' = [term EXCEPT ![t] = "sentinel"]
          /\ store_calls' = [store_calls EXCEPT ![t] = Append(@, d.full)]
          /\ stamp' = [stamp EXCEPT ![t] = now]
     ELSE UNCHANGED <<term, store_calls, stamp>>

\* POST /v1/chat: state.config.read().await is asked for
ReadConfig(t) ==
  /\ pc[t] = "idle"
  /\ config_lock' = read(config_lock, ChatTask(t))
  /\ pc' = [pc EXCEPT ![t] = "config"]
  /\ UNCHANGED <<fixedVars, streamVars, resolvedVars, payload, key_lookups, response, pos,
                 received, term, store_calls, stamp, db_lock, history>>

chat_key_first(t) ==
  /\ pc[t] = "config"
  /\ ChatTask(t) \in config_lock.readers
  /\ config_lock' = Drop(config_lock, ChatTask(t))
  /\ LET resolved == resolve_model(req[t], config)
         split == split_provider(resolved.value)
         key == get_openrouter_key(secret)
         stream == IF IsSome(req[t].stream) THEN Unwrap(req[t].stream) ELSE TRUE
         refuse(r) == /\ response' = [response EXCEPT ![t] = Some(r)]
                      /\ pc' = [pc EXCEPT ![t] = "responded"]
                      /\ UNCHANGED payload
     IN /\ key_lookups' = [key_lookups EXCEPT ![t] = @ + 1]
        /\ IF ~key.ok
           THEN /\ refuse(error_response(400, "key_missing", key.value))
                /\ UNCHANGED resolvedVars
           ELSE IF ~resolved.ok
           THEN /\ refuse(error_response(400, "model_missing", resolved.value))
                /\ UNCHANGED resolvedVars
           ELSE /\ model_id' = [model_id EXCEPT ![t] = resolved.value]
                /\ provider' = [provider EXCEPT ![t] = split.provider]
                /\ model' = [model EXCEPT ![t] = split.model]
                /\ IF ~HeaderValid(key.value)
                   THEN refuse(error_response(400, "openrouter_error", "invalid header value"))
                   ELSE /\ payload' = [payload EXCEPT ![t] = Some(
                               [model |-> split.model,
                                messages |-> to_openrouter_messages(req[t].messages, req[t].image),
                                stream |-> stream])]
                        /\ pc' = [pc EXCEPT ![t] = "send"]
                        /\ UNCHANGED response
  /\ UNCHANGED <<fixedVars, streamVars, pos, received, term, store_calls, stamp, db_lock, history>>

chat_keeps_guard(t) ==
  /\ pc[t] = "config"
  /\ ChatTask(t) \in config_lock.readers
  /\ UNCHANGED config_lock
  /\ LET resolved == resolve_model(req[t], config)
         split == split_provider(resolved.value)
         key == get_openrouter_key(secret)
         stream == IF IsSome(req[t].stream) THEN Unwrap(req[t].stream) ELSE TRUE
         refuse(r) == /\ response' = [response EXCEPT ![t] = Some(r)]
                      /\ pc' = [pc EXCEPT ![t] = "responded"]
                      /\ UNCHANGED payload
         lookup == key_lookups' = [key_lookups EXCEPT ![t] = @ + 1]
     IN IF ~resolved.ok
        THEN /\ refuse(error_response(400, "model_missing", resolved.value))
             /\ UNCHANGED <<resolvedVars, key_lookups>>
        ELSE /\ model_id' = [model_id EXCEPT ![t] = resolved.value]
             /\ provider' = [provider EXCEPT ![t] = split.provider]
             /\ model' = [model EXCEPT ![t] = split.model]
             /\ IF split.provider # <<"openrouter">>
                THEN /\ refuse(error_response(400, "provider_unsupported",
                                              "Only openrouter is supported in MVP."))
                     /\ UNCHANGED key_lookups
                ELSE IF ~key.ok
                THEN refuse(error_response(400, "key_missing", key.value)) /\ lookup
                ELSE IF ~HeaderValid(key.value)
                THEN refuse(error_response(400, "openrouter_error", "invalid header value"))
                     /\ lookup
                ELSE /\ lookup
                     /\ payload' = [payload EXCEPT ![t] = Some(
                            [model |-> split.model,
                             messages |-> to_openrouter_messages(req[t].messages, req[t].image),
                             stream |-> stream])]
                     /\ pc' = [pc EXCEPT ![t] = "send"]
                     /\ UNCHANGED response
  /\ UNCHANGED <<fixedVars, streamVars, pos, received, term, store_calls, stamp, db_lock, history>>

\* POST /v1/chat from the read guard to the upstream request: the
\* configuration is cloned and the guard dropped, then resolve_model,
\* split_provider, get_openrouter_key and the head of
\* stream_openrouter/complete_openrouter
chat(t) ==
  /\ pc[t] = "config"
  /\ ChatTask(t) \in config_lock.readers
  /\ config_lock' = Drop(config_lock, ChatTask(t))
  /\ LET resolved == resolve_model(req[t], config)
         split == split_provider(resolved.value)
         key == get_openrouter_key(secret)
         stream == IF IsSome(req[t].stream) THEN Unwrap(req[t].stream) ELSE TRUE
         refuse(r) == /\ response' = [response EXCEPT ![t] = Some(r)]
                      /\ pc' = [pc EXCEPT ![t] = "responded"]
                      /\ UNCHANGED payload
         lookup == key_lookups' = [key_lookups EXCEPT ![t] = @ + 1]
     IN IF ~resolved.ok
        THEN /\ refuse(error_response(400, "model_missing", resolved.value))
             /\ UNCHANGED <<resolvedVars, key_lookups>>
        ELSE /\ model_id' = [model_id EXCEPT ![t] = resolved.value]
             /\ provider' = [provider EXCEPT ![t] = split.provider]
             /\ model' = [model EXCEPT ![t] = split.model]
             /\ IF split.provider # <<"openrouter">>
                THEN /\ refuse(error_response(400, "provider_unsupported",
                                              "Only openrouter is supported in MVP."))
                     /\ UNCHANGED key_lookups
                ELSE IF ~key.ok
                THEN refuse(error_response(400, "key_missing", key.value)) /\ lookup
                ELSE IF ~HeaderValid(key.value)
                THEN refuse(error_response(400, "openrouter_error", "invalid header value"))
                     /\ lookup
                ELSE /\ lookup
                     /\ payload' = [payload EXCEPT ![t] = Some(
                            [model |-> split.model,
                             messages |-> to_openrouter_messages(req[t].messages, req[t].image),
                             stream |-> stream])]
                     /\ pc' = [pc EXCEPT ![t] = "send"]
                     /\ UNCHANGED response
  /\ UNCHANGED <<fixedVars, streamVars, pos, received, term, store_calls, stamp, db_lock, history>>

\* the text of a failed send, and the text made of a refusing status and body
Refusals == {"transport error", "OpenRouter error (status): text"}

UpstreamRefuses_on_the_stream(t) ==
  /\ pc[t] = "send"
  /\ \E message \in Refusals :
       IF Unwrap(payload[t]).stream
       THEN /\ response' = [response EXCEPT ![t] = Some([status |-> 200, body |-> "sse"])]
            /\ events' = [events EXCEPT ![t] = <<ErrorDoneEvent(message)>>]
            /\ pc' = [pc EXCEPT ![t] = "ended"]
       ELSE /\ response' = [response EXCEPT ![t] =
                               Some(error_response(502, "openrouter_error", message))]
            /\ pc' = [pc EXCEPT ![t] = "responded"]
            /\ UNCHANGED events
  /\ term' = [term EXCEPT ![t] = "refused"]
  /\ UNCHANGED <<inputVars, buffer, lines, full, finish_reason, resolvedVars, payload, key_lookups,
                 pos, received, store_calls, stamp, db_lock, history>>

\* client.post(..).send().await fails, or the status is not a success
UpstreamRefuses(t) ==
  /\ pc[t] = "send"
  /\ \E message \in Refusals :
       response' = [response EXCEPT ![t] = Some(error_response(502, "openrouter_error", message))]
  /\ pc' = [pc EXCEPT ![t] = "responded"]
  /\ term' = [term EXCEPT ![t] = "refused"]
  /\ UNCHANGED <<inputVars, streamVars, resolvedVars, payload, key_lookups, pos, received,
                 store_calls, stamp, db_lock, history>>

\* stream_openrouter: success status, the Sse response is returned
StreamOpens(t) ==
  /\ pc[t] = "send"
  /\ Unwrap(payload[t]).stream
  /\ response' = [response EXCEPT ![t] = Some([status |-> 200, body |-> "sse"])]
  /\ pc' = [pc EXCEPT ![t] = "sse"]
  /\ UNCHANGED <<inputVars, streamVars, resolvedVars, payload, key_lookups, pos, received, term, store_calls, stamp,
                 db_lock, history>>

\* first poll of the stream! block: yield the meta event
EmitMeta(t) ==
  /\ pc[t] = "sse"
  /\ events' = [events EXCEPT ![t] = <<MetaEvent(model_id[t])>>]
  /\ pc' = [pc EXCEPT ![t] = "yielded"]
  /\ UNCHANGED <<inputVars, buffer, lines, full, finish_reason, resolvedVars, payload, key_lookups,
                 response, pos, received, term, store_calls, stamp, db_lock, history>>

\* the consumer polls again after a yield
Resume(t) ==
  /\ pc[t] = "yielded"
  /\ Advance(t, Decode(Decoder(t)))
  /\ UNCHANGED <<inputVars, resolvedVars, payload, key_lookups, response, pos, received, db_lock, history>>

RecvChunk_prepends(t, n) ==
  /\ pc[t] = "read"
  /\ pos[t] + n <= Len(script[t])
  /\ n \in read_sizes \/ pos[t] + n = Len(script[t])
  /\ LET chunk == SubSeq(script[t], pos[t] + 1, pos[t] + n)
     IN Advance(t, Decode([Decoder(t) EXCEPT !.buffer = from_utf8_lossy(chunk) \o @]))
  /\ pos' = [pos EXCEPT ![t] = @ + n]
  /\ received' = [received EXCEPT ![t] =
                    @ \o from_utf8_lossy(SubSeq(script[t], pos[t] + 1, pos[t] + n))]
  /\ UNCHANGED <<inputVars, resolvedVars, payload, key_lookups, response, db_lock, history>>

\* bytes_stream.next().await yields Some(Ok(chunk)) of n bytes
RecvChunk(t, n) ==
  /\ pc[t] = "read"
  /\ pos[t] + n <= Len(script[t])
  /\ n \in read_sizes \/ pos[t] + n = Len(script[t])
  /\ LET chunk == SubSeq(script[t], pos[t] + 1, pos[t] + n)
     IN Advance(t, Decode([Decoder(t) EXCEPT !.buffer = @ \o from_utf8_lossy(chunk)]))
  /\ pos' = [pos EXCEPT ![t] = @ + n]
  /\ received' = [received EXCEPT ![t] =
                    @ \o from_utf8_lossy(SubSeq(script[t], pos[t] + 1, pos[t] + n))]
  /\ UNCHANGED <<inputVars, resolvedVars, payload, key_lookups, response, db_lock, history>>

UpstreamEnds_flushes_buffer(t) ==
  /\ pc[t] = "read"
  /\ pos[t] = Len(script[t])
  /\ pc' = [pc EXCEPT ![t] = "store"]
  /\ term' = [term EXCEPT ![t] = "eof"]
  /\ full' = [full EXCEPT ![t] = @ \o buffer[t]]
  /\ store_calls' = [store_calls EXCEPT ![t] = Append(@, full[t] \o buffer[t])]
  /\ stamp' = [stamp EXCEPT ![t] = now]
  /\ UNCHANGED <<inputVars, buffer, lines, finish_reason, events, resolvedVars, payload,
                 key_lookups, response, pos, received, db_lock, history>>

\* bytes_stream.next().await yields None: store_history is called after the loop
UpstreamEnds(t) ==
  /\ pc[t] = "read"
  /\ pos[t] = Len(script[t])
  /\ pc' = [pc EXCEPT ![t] = "store"]
  /\ term' = [term EXCEPT ![t] = "eof"]
  /\ store_calls' = [store_calls EXCEPT ![t] = Append(@, full[t])]
  /\ stamp' = [stamp EXCEPT ![t] = now]
  /\ UNCHANGED <<inputVars, streamVars, resolvedVars, payload, key_lookups, response, pos, received, db_lock, history>>

UpstreamFails_reports_tracked_reason(t) ==
  /\ pc[t] = "read"
  /\ events' = [events EXCEPT ![t] = Append(@, DoneEvent(finish_reason[t]))]
  /\ pc' = [pc EXCEPT ![t] = "ended"]
  /\ term' = [term EXCEPT ![t] = "fail"]
  /\ UNCHANGED <<inputVars, buffer, lines, full, finish_reason, resolvedVars, payload, key_lookups,
                 response, pos, received, store_calls, stamp, db_lock, history>>

\* bytes_stream.next().await yields Some(Err(err))
UpstreamFails(t) ==
  /\ pc[t] = "read"
  /\ events' = [events EXCEPT ![t] = Append(@, ErrorDoneEvent(ReadError))]
  /\ pc' = [pc EXCEPT ![t] = "ended"]
  /\ term' = [term EXCEPT ![t] = "fail"]
  /\ UNCHANGED <<inputVars, buffer, lines, full, finish_reason, resolvedVars, payload, key_lookups,
                 response, pos, received, store_calls, stamp, db_lock, history>>

\* bodies of a buffered completion: not JSON, or JSON whose
\* choices[0].message.content is missing or the given text
Bodies == {None, Some(<<>>), Some(<<"a">>), Some(<<" ">>)}

\* complete_openrouter: success status, then resp.json()
BufferedReply(t, body) ==
  /\ pc[t] = "send"
  /\ ~Unwrap(payload[t]).stream
  /\ IF body = None
     THEN /\ response' = [response EXCEPT ![t] =
                            Some(error_response(502, "openrouter_error", "invalid body"))]
          /\ pc' = [pc EXCEPT ![t] = "responded"]
          /\ UNCHANGED <<full, term, store_calls, stamp>>
     ELSE /\ full' = [full EXCEPT ![t] = Unwrap(body)]
          /\ pc' = [pc EXCEPT ![t] = "store"]
          /\ term' = [term EXCEPT ![t] = "buffered"]
          /\ store_calls' = [store_calls EXCEPT ![t] = Append(@, Unwrap(body))]
          /\ stamp' = [stamp EXCEPT ![t] = now]
          /\ UNCHANGED response
  /\ UNCHANGED <<inputVars, buffer, lines, finish_reason, events, resolvedVars, payload, key_lookups,
                 pos, received, db_lock, history>>

LockDb_barges(t) ==
  /\ pc[t] = "store"
  /\ db_lock' = Some(ChatTask(t))
  /\ pc' = [pc EXCEPT ![t] = "insert"]
  /\ UNCHANGED <<inputVars, streamVars, resolvedVars, payload, key_lookups, response, pos,
                 received, term, store_calls, stamp, history>>

\* store_history: db.lock().await is granted
LockDb(t) ==
  /\ pc[t] = "store"
  /\ db_lock = None
  /\ db_lock' = Some(ChatTask(t))
  /\ pc' = [pc EXCEPT ![t] = "insert"]
  /\ UNCHANGED <<inputVars, streamVars, resolvedVars, payload, key_lookups, response, pos, received, term,
                 store_calls, stamp, history>>

Insert_without_return(t, ok) ==
  /\ pc[t] = "insert"
  /\ db_lock = Some(ChatTask(t))
  /\ db_lock' = None
  /\ history' = IF ok
                THEN Append(history, HistoryRow(req[t].messages, full[t], model_id[t],
                                                "openrouter", ChatId(t), stamp[t]))
                ELSE history
  /\ IF Unwrap(payload[t]).stream
     THEN /\ events' = [events EXCEPT ![t] = Append(@, DoneEvent(finish_reason[t]))]
          /\ pc' = [pc EXCEPT ![t] = "yielded"]
          /\ UNCHANGED response
     ELSE /\ response' = [response EXCEPT ![t] =
               IF ok
               THEN Some([status |-> 200,
                          body |-> [text |-> full[t], model |-> model_id[t],
                                    provider |-> "openrouter"]])
               ELSE Some(error_response(500, "openrouter_error", "storage error"))]
          /\ pc' = [pc EXCEPT ![t] = "responded"]
          /\ UNCHANGED events
  /\ UNCHANGED <<inputVars, buffer, lines, full, finish_reason, resolvedVars, payload, key_lookups,
                 pos, received, term, store_calls, stamp>>

Insert_answers_stripped_model(t, ok) ==
  /\ pc[t] = "insert"
  /\ db_lock = Some(ChatTask(t))
  /\ db_lock' = None
  /\ history' = IF ok
                THEN Append(history, HistoryRow(req[t].messages, full[t], model_id[t],
                                                "openrouter", ChatId(t), stamp[t]))
                ELSE history
  /\ IF Unwrap(payload[t]).stream
     THEN /\ events' = [events EXCEPT ![t] = Append(@, DoneEvent(finish_reason[t]))]
          /\ pc' = [pc EXCEPT ![t] = "ended"]
          /\ UNCHANGED response
     ELSE /\ response' = [response EXCEPT ![t] =
               IF ok
               THEN Some([status |-> 200,
                          body |-> [text |-> full[t], model |-> model[t],
                                    provider |-> "openrouter"]])
               ELSE Some(error_response(500, "openrouter_error", "storage error"))]
          /\ pc' = [pc EXCEPT ![t] = "responded"]
          /\ UNCHANGED events
  /\ UNCHANGED <<inputVars, buffer, lines, full, finish_reason, resolvedVars, payload, key_lookups,
                 pos, received, term, store_calls, stamp>>

Insert_reports_failed_write(t, ok) ==
  /\ pc[t] = "insert"
  /\ db_lock = Some(ChatTask(t))
  /\ db_lock' = None
  /\ history' = IF ok
                THEN Append(history, HistoryRow(req[t].messages, full[t], model_id[t],
                                                "openrouter", ChatId(t), stamp[t]))
                ELSE history
  /\ IF Unwrap(payload[t]).stream
     THEN /\ events' = [events EXCEPT ![t] =
                          Append(@, IF ok THEN DoneEvent(finish_reason[t])
                                    ELSE ErrorDoneEvent("storage error"))]
          /\ pc' = [pc EXCEPT ![t] = "ended"]
          /\ UNCHANGED response
     ELSE /\ response' = [response EXCEPT ![t] =
               IF ok
               THEN Some([status |-> 200,
                          body |-> [text |-> full[t], model |-> model_id[t],
                                    provider |-> "openrouter"]])
               ELSE Some(error_response(500, "openrouter_error", "storage error"))]
          /\ pc' = [pc EXCEPT ![t] = "responded"]
          /\ UNCHANGED events
  /\ UNCHANGED <<inputVars, buffer, lines, full, finish_reason, resolvedVars, payload, key_lookups,
                 pos, received, term, store_calls, stamp>>

\* store_history: conn.execute(INSERT ..) succeeds or fails, the guard is
\* dropped, and the caller goes on: the stream yields done and ends, the
\* buffered handler returns its response
Insert(t, ok) ==
  /\ pc[t] = "insert"
  /\ db_lock = Some(ChatTask(t))
  /\ db_lock' = None
  /\ history' = IF ok
                THEN Append(history, HistoryRow(req[t].messages, full[t], model_id[t],
                                                "openrouter", ChatId(t), stamp[t]))
                ELSE history
  /\ IF Unwrap(payload[t]).stream
     THEN /\ events' = [events EXCEPT ![t] = Append(@, DoneEvent(finish_reason[t]))]
          /\ pc' = [pc EXCEPT ![t] = "ended"]
          /\ UNCHANGED response
     ELSE /\ response' = [response EXCEPT ![t] =
               IF ok
               THEN Some([status |-> 200,
                          body |-> [text |-> full[t], model |-> model_id[t],
                                    provider |-> "openrouter"]])
               ELSE Some(error_response(500, "openrouter_error", "storage error"))]
          /\ pc' = [pc EXCEPT ![t] = "responded"]
          /\ UNCHANGED events
  /\ UNCHANGED <<inputVars, buffer, lines, full, finish_reason, resolvedVars, payload, key_lookups,
                 pos, received, term, store_calls, stamp>>

\* the caller disconnects: the task is dropped at the await it is suspended at
Disconnect(t) ==
  /\ pc[t] \in {"config", "send", "sse", "yielded", "read", "store"}
  /\ pc' = [pc EXCEPT ![t] = "dropped"]
  /\ config_lock' = Drop(config_lock, ChatTask(t))
  /\ UNCHANGED <<fixedVars, streamVars, resolvedVars, payload, key_lookups, response, pos, received, term,
                 store_calls, stamp, db_lock, history>>

\* what no step of a memory caller changes
turnVars == <<config, secret, read_sizes, req, script, pc, model_id, provider, model, payload,
              response, pos, received, streamVars, term, store_calls, stamp, key_lookups,
              config_lock, updVars>>

\* POST /v1/memory/store up to the lock: the id is drawn and the clock read
MemoryStoreCalled(m) ==
  /\ mpc[m] = "idle"
  /\ mreq[m].route = "store"
  /\ \E t \in {now, now + 1} :
       /\ now' = t
       /\ mstamp' = [mstamp EXCEPT ![m] = t]
  /\ mpc' = [mpc EXCEPT ![m] = "lock"]
  /\ UNCHANGED <<turnVars, db_lock, history, pinned, presets, settings, mreq, mresp>>

\* POST /v1/memory/query up to the lock: the start instant is taken
MemoryQueryCalled(m) ==
  /\ mpc[m] = "idle"
  /\ mreq[m].route = "query"
  /\ mstamp' = [mstamp EXCEPT ![m] = now]
  /\ mpc' = [mpc EXCEPT ![m] = "lock"]
  /\ UNCHANGED <<turnVars, db_lock, history, pinned, presets, settings, now, mreq, mresp>>

\* memory_store, memory_query: db.lock().await is granted
MemoryLockDb(m) ==
  /\ mpc[m] = "lock"
  /\ db_lock = None
  /\ db_lock' = Some(MemoryTask(m))
  /\ mpc' = [mpc EXCEPT ![m] = "run"]
  /\ UNCHANGED <<turnVars, history, pinned, presets, settings, now, mreq, mstamp, mresp>>

\* memory_store under the lock, and the route's response to its result
MemoryStoreReturns(m, ok) ==
  /\ mpc[m] = "run"
  /\ mreq[m].route = "store"
  /\ db_lock = Some(MemoryTask(m))
  /\ LET out == memory_store(Database(history, pinned, presets, settings), mreq[m],
                             MemoryId(m), mstamp[m], ok)
     IN /\ history' = out.db.history
        /\ pinned' = out.db.pinned
        /\ presets' = out.db.presets
        /\ settings' = out.db.settings
        /\ mresp' = [mresp EXCEPT ![m] =
                       IF out.ok
                       THEN Some([status |-> 200, body |-> out.value])
                       ELSE Some(error_response(400, "memory_store_failed", out.value))]
  /\ db_lock' = None
  /\ mpc' = [mpc EXCEPT ![m] = "responded"]
  /\ UNCHANGED <<turnVars, now, mreq, mstamp>>

\* memory_query under the lock, and the route's response to its result; a
\* statement that fails (~ok) fails the whole query
MemoryQueryReturns(m, ok) ==
  /\ mpc[m] = "run"
  /\ mreq[m].route = "query"
  /\ db_lock = Some(MemoryTask(m))
  /\ IF ok
     THEN \E items \in memory_query(Database(history, pinned, presets, settings), mreq[m]) :
            mresp' = [mresp EXCEPT ![m] =
                        Some([status |-> 200,
                              body |-> [items |-> items, took_ms |-> now - mstamp[m]]])]
     ELSE mresp' = [mresp EXCEPT ![m] =
                      Some(error_response(400, "memory_query_failed", "storage error"))]
  /\ db_lock' = None
  /\ mpc' = [mpc EXCEPT ![m] = "responded"]
  /\ UNCHANGED <<turnVars, history, pinned, presets, settings, now, mreq, mstamp>>

\* what no step of a set_config call changes
restVars == <<secret, read_sizes, req, script, pc, model_id, provider, model, payload,
              response, pos, received, streamVars, term, store_calls, stamp, key_lookups,
              db_lock, history, memVars, ureq>>

\* set_config up to the lock: save_config writes the document and
\* state.config.write().await is asked for, or the write fails and the
\* command returns the error
set_config(u, ok) ==
  /\ upc[u] = "idle"
  /\ IF ok
     THEN /\ config_file' = ureq[u]
          /\ config_lock' = write(config_lock, ConfigTask(u))
          /\ upc' = [upc EXCEPT ![u] = "write"]
          /\ UNCHANGED uresp
     ELSE /\ uresp' = [uresp EXCEPT ![u] = Some([ok |-> FALSE, value |-> "io error"])]
          /\ upc' = [upc EXCEPT ![u] = "returned"]
          /\ UNCHANGED <<config_file, config_lock>>
  /\ UNCHANGED <<restVars, config>>

\* set_config under the write guard: the configuration is replaced, the
\* guard dropped and Ok(()) returned
ConfigWritten(u) ==
  /\ upc[u] = "write"
  /\ config_lock.writer = Some(ConfigTask(u))
  /\ config' = ureq[u]
  /\ config_lock' = Drop(config_lock, ConfigTask(u))
  /\ uresp' = [uresp EXCEPT ![u] = Some([ok |-> TRUE, value |-> "()"])]
  /\ upc' = [upc EXCEPT ![u] = "returned"]
  /\ UNCHANGED <<restVars, config_file>>

NextConfig ==
  \E u \in Callers :
    \/ \E ok \in BOOLEAN : set_config(u, ok)
    \/ ConfigWritten(u)

NextMemory ==
  \E m \in Callers :
    \/ MemoryStoreCalled(m)
    \/ MemoryQueryCalled(m)
    \/ MemoryLockDb(m)
    \/ \E ok \in BOOLEAN : MemoryStoreReturns(m, ok)
    \/ \E ok \in BOOLEAN : MemoryQueryReturns(m, ok)

NextChat ==
  \E t \in Turns :
    \/ ReadConfig(t)
    \/ chat(t)
    \/ UpstreamRefuses(t)
    \/ StreamOpens(t)
    \/ EmitMeta(t)
    \/ Resume(t)
    \/ \E n \in 1..Len(script[t]) : RecvChunk(t, n)
    \/ UpstreamEnds(t)
    \/ UpstreamFails(t)
    \/ \E body \in Bodies : BufferedReply(t, body)
    \/ LockDb(t)
    \/ \E ok \in BOOLEAN : Insert(t, ok)
    \/ Disconnect(t)

\* ------------------------------------------------------------- inputs
\* frames and fragments an upstream stream is made of
FrameDeltaA == <<DataPrefix, " ", JsonOpen, "a", JsonClose, NL, NL>>
FrameDeltaE9 == <<DataPrefix, JsonOpen, ByteC3, ByteA9, JsonClose, NL, NL>>
FrameDeltaSpace == <<DataPrefix, JsonOpen, " ", JsonClose, NL, NL>>
FrameDeltaEmpty == <<DataPrefix, JsonOpen, JsonClose, NL, NL>>
FrameFinish == <<DataPrefix, " ", JsonFinish, NL, NL>>
FrameDone == <<DataPrefix, " ", DoneSentinel, NL, NL>>
FrameMalformed == <<DataPrefix, "a", NL, NL>>
FrameComment == <<"a", NL, NL>>
FrameTwoLines == <<DataPrefix, JsonOpen, "a", JsonClose, NL, DataPrefix, JsonFinish, NL, NL>>
FrameMalformedThenDelta == <<DataPrefix, "a", NL, DataPrefix, JsonOpen, "a", JsonClose, NL, NL>>
FrameDoneThenDelta == <<DataPrefix, DoneSentinel, NL, DataPrefix, JsonOpen, "a", JsonClose, NL, NL>>
Unterminated == <<DataPrefix, JsonOpen, "a", JsonClose, NL>>

Frames == {FrameDeltaA, FrameDeltaE9, FrameDeltaSpace, FrameDeltaEmpty, FrameFinish,
           FrameDone, FrameMalformed, FrameComment, FrameTwoLines,
           FrameMalformedThenDelta, FrameDoneThenDelta, Unterminated}

\* every stream of at most MaxFrames of them
Scripts == {Concat(fs) : fs \in SeqsUpTo(Frames, MaxFrames)}
MaxScriptLen == MaxFrames * 9

ModelChars == {" ", ":", "m", "openrouter"}
Overrides == {None} \cup {Some(m) : m \in SeqsUpTo(ModelChars, MaxOverrideLen)}

DefaultConfig ==
  [text_default_model |-> <<"openrouter", ":", "m">>,
   vision_default_model |-> <<"openrouter", ":", "m", "m">>]

Configs ==
  [text_default_model : {<<>>, <<" ">>, <<"openrouter", ":", "m">>},
   vision_default_model : {<<" ">>, <<"m", ":", "m">>}]

Png == [mime |-> "image/png", base64 |-> "abc"]

Roles == {"user", "assistant", "system"}
Messages == [role : Roles, content : {<<>>, <<"a">>}]
MessageLists == SeqsUpTo(Messages, MaxMessages)

Hello == <<[role |-> "user", content |-> <<"a">>]>>

PlainRequest(stream) ==
  [messages |-> Hello, image |-> None, model_override |-> None, stream |-> stream]

StreamFlags == {None, Some(FALSE)}

ValidSecret == Some(<<"k">>)

\* Init with the turns of `active` waiting to be handled
InitTurns(active, cfg, sec, sizes, requests, scripts) ==
  /\ config = cfg
  /\ secret = sec
  /\ read_sizes = sizes
  /\ req = requests
  /\ script = scripts
  /\ pc = [t \in Turns |-> IF t \in active THEN "idle" ELSE "off"]
  /\ model_id = [t \in Turns |-> <<>>]
  /\ provider = [t \in Turns |-> <<>>]
  /\ model = [t \in Turns |-> <<>>]
  /\ payload = [t \in Turns |-> None]
  /\ response = [t \in Turns |-> None]
  /\ pos = [t \in Turns |-> 0]
  /\ received = [t \in Turns |-> <<>>]
  /\ buffer = [t \in Turns |-> <<>>]
  /\ lines = [t \in Turns |-> <<>>]
  /\ full = [t \in Turns |-> <<>>]
  /\ finish_reason = [t \in Turns |-> "stop"]
  /\ events = [t \in Turns |-> <<>>]
  /\ term = [t \in Turns |-> "none"]
  /\ store_calls = [t \in Turns |-> <<>>]
  /\ stamp = [t \in Turns |-> 0]
  /\ key_lookups = [t \in Turns |-> 0]
  /\ db_lock = None
  /\ config_lock = FreeLock

NoRequest == [route |-> "none"]

\* the set_config calls of `active` waiting to run, the document on disk
\* being the configuration load_or_init read
InitUpdaters(active, cfg, requests) ==
  /\ config_file = cfg
  /\ ureq = requests
  /\ upc = [u \in Callers |-> IF u \in active THEN "idle" ELSE "off"]
  /\ uresp = [u \in Callers |-> None]

NoUpdater(cfg) == InitUpdaters({}, cfg, [u \in Callers |-> cfg])

\* an empty database, a clock that stands still, and no memory caller
InitState(active, cfg, sec, sizes, requests, scripts) ==
  /\ InitTurns(active, cfg, sec, sizes, requests, scripts)
  /\ NoUpdater(cfg)
  /\ history = <<>> /\ pinned = <<>> /\ presets = <<>> /\ settings = <<>>
  /\ now = 0
  /\ mreq = [m \in Callers |-> NoRequest]
  /\ mpc = [m \in Callers |-> "off"]
  /\ mstamp = [m \in Callers |-> 0]
  /\ mresp = [m \in Callers |-> None]

OnlyFirst(x, rest) == [t \in Turns |-> IF t = 1 THEN x ELSE rest]

\* concurrent turns, each streaming or buffered, over two short streams
Init ==
  \E requests \in [Turns -> {PlainRequest(f) : f \in StreamFlags}],
     scripts \in [Turns -> {FrameDeltaA \o FrameDone, FrameTwoLines}] :
    InitState(Turns, DefaultConfig, ValidSecret, {9}, requests, scripts)

Next == NextChat

Spec == Init /\ [][Next]_vars

\* one turn over every stream of Scripts, cut into chunks at every place
InitDecode ==
  \E f \in StreamFlags, s \in Scripts :
    InitState({1}, DefaultConfig, ValidSecret, 1..MaxScriptLen,
              OnlyFirst(PlainRequest(f), PlainRequest(None)), OnlyFirst(s, <<>>))

SpecDecode == InitDecode /\ [][NextChat]_vars

\* one turn over every override, image presence, configuration and secret
InitResolve ==
  \E o \in Overrides, i \in {None, Some(Png)}, f \in StreamFlags, c \in Configs,
     k \in {None, Some(<<" ">>), ValidSecret, Some(<<"k", NL>>)} :
    InitState({1}, c, k, {1},
              OnlyFirst([messages |-> Hello, image |-> i, model_override |-> o, stream |-> f],
                        PlainRequest(None)),
              OnlyFirst(<<NL>>, <<>>))

SpecResolve == InitResolve /\ [][NextChat]_vars

\* one turn over every message list, with and without an image
InitMessages ==
  \E m \in MessageLists, i \in {None, Some(Png)}, f \in StreamFlags :
    InitState({1}, DefaultConfig, ValidSecret, {1},
              OnlyFirst([messages |-> m, image |-> i, model_override |-> None, stream |-> f],
                        PlainRequest(None)),
              OnlyFirst(<<NL>>, <<>>))

SpecMessages == InitMessages /\ [][NextChat]_vars


\* concurrent turns: the odd ones stream a body that ends without [DONE],
\* leaving bytes of an unfinished frame behind, the even ones a body that
\* ends with [DONE]; the second turn may be buffered
InitLive ==
  \E f \in StreamFlags :
    InitState(Turns, DefaultConfig, ValidSecret, {9},
              [t \in Turns |-> PlainRequest(IF t = 2 THEN f ELSE None)],
              [t \in Turns |-> IF t % 2 = 0 THEN FrameDeltaA \o FrameDone
                                ELSE FrameTwoLines \o Unterminated])

\* the upstream body of turn t ends or fails
UpstreamStops(t) == UpstreamEnds(t) \/ UpstreamFails(t)

\* the task of turn t runs when it can: its stream is polled by a caller
\* that keeps consuming, and its insert runs once it holds the lock
Runs(t) == EmitMeta(t) \/ Resume(t) \/ \E ok \in BOOLEAN : Insert(t, ok)

\* every task runs when it can; the upstream body, which delivers finitely
\* many chunks, does not leave the read pending for ever; the database lock
\* is granted to a task that keeps asking for it
Fairness ==
  \A t \in Turns :
    /\ WF_vars(Runs(t))
    /\ WF_vars(UpstreamStops(t))
    /\ SF_vars(LockDb(t))

SpecLive == InitLive /\ [][Next]_vars /\ Fairness

\* ------------------------------------------------------- memory: inputs
\* payloads: no member, every member, text members that are not strings, and
\* a payload that is no object
NoMembers == JsonObject(<<>>)

AllMembers ==
  JsonObject([text |-> JsonString(<<"b">>), tags |-> JsonOther(<<"[", "1", "]">>),
              name |-> JsonString(<<"b">>), system_prompt |-> JsonString(<<"a">>),
              constraints |-> JsonOther(<<"{", "\"n\":1", "}">>),
              routing_policy |-> JsonOther(<<"{", "\"r\":1", "}">>),
              key |-> JsonString(<<"k">>), value |-> JsonOther(<<"1">>)])

NumberMembers ==
  JsonObject([text |-> JsonOther(<<"1">>), name |-> JsonOther(<<"1">>),
              key |-> JsonOther(<<"1">>)])

NoObject == JsonOther(<<"[", "\"", "A", "\"", "]">>)

Payloads == {NoMembers, AllMembers, NumberMembers, NoObject}
SupportedTypes == {"history", "pinned", "preset", "settings"}
StoreRequests ==
  {[route |-> "store", type |-> k, payload |-> p] : k \in SupportedTypes \cup {"note"},
                                                     p \in Payloads}

QueryTexts == {<<>>, <<"a">>, <<"A">>, <<"b">>, <<"_">>, <<"%">>, <<"a", "b">>, <<"b", "a">>}
Limits == {None, Some(-1), Some(0), Some(1), Some(2)}
QueryRequests == {[route |-> "query", query |-> q, limit |-> l] : q \in QueryTexts, l \in Limits}

\* what the callers after the first ask for: a store and a query in turn
OtherRequest(m) ==
  IF m % 2 = 0
  THEN [route |-> "store", type |-> "pinned", payload |-> AllMembers]
  ELSE [route |-> "query", query |-> <<>>, limit |-> None]

\* a database file left by earlier runs
SeedHistory ==
  <<HistoryRow(Hello, <<"a">>, <<"openrouter", ":", "m">>, "openrouter", <<"seed", 1>>, -2),
    StoredHistoryRow(NoObject, <<"seed", 2>>, -1)>>

SeedPinned ==
  <<PinnedRow(JsonObject([text |-> JsonString(<<"a">>)]), <<"seed", 3>>, -2),
    PinnedRow(JsonObject([text |-> JsonString(<<"a", "b">>)]), <<"seed", 4>>, -1),
    PinnedRow(JsonObject([text |-> JsonString(<<"b">>)]), <<"seed", 5>>, -1)>>

SeedPresets ==
  <<PresetRow(JsonObject([name |-> JsonString(<<"a">>)]), <<"seed", 6>>, -2),
    PresetRow(NoMembers, <<"seed", 7>>, -1)>>

SeedSettings ==
  <<SettingsRow(JsonObject([key |-> JsonString(<<"a">>), value |-> JsonString(<<"a">>)]),
                <<"seed", 8>>, -2)>>

\* the callers of `requests` waiting to be handled over the database db
InitCallers(db, requests) ==
  /\ history = db.history /\ pinned = db.pinned /\ presets = db.presets
  /\ settings = db.settings
  /\ now = 0
  /\ mreq = requests
  /\ mpc = [m \in Callers |-> "idle"]
  /\ mstamp = [m \in Callers |-> 0]
  /\ mresp = [m \in Callers |-> None]

RequestsOf(first) ==
  {f \in [Callers -> first \cup {OtherRequest(m) : m \in Callers}] :
     f[1] \in first /\ \A m \in Callers \ {1} : f[m] = OtherRequest(m)}

\* memory callers alone, over an empty or a seeded database
InitMemory ==
  \E db \in {Database(<<>>, <<>>, <<>>, <<>>),
             Database(SeedHistory, SeedPinned, SeedPresets, SeedSettings)},
     requests \in RequestsOf(StoreRequests \cup QueryRequests) :
    /\ InitTurns({}, DefaultConfig, ValidSecret, {1},
                 [t \in Turns |-> PlainRequest(None)], [t \in Turns |-> <<>>])
    /\ NoUpdater(DefaultConfig)
    /\ InitCallers(db, requests)

SpecMemory == InitMemory /\ [][NextMemory]_vars

\* one chat turn and the memory callers over an empty database
InitGateway ==
  \E f \in StreamFlags, k \in {None, ValidSecret},
     requests \in RequestsOf({r \in StoreRequests : r.payload \in {NoMembers, AllMembers}}
                              \cup {r \in QueryRequests : r.query = <<"b">> /\ r.limit = None}) :
    /\ InitTurns({1}, DefaultConfig, k, {1},
                 OnlyFirst(PlainRequest(f), PlainRequest(None)), OnlyFirst(<<NL>>, <<>>))
    /\ NoUpdater(DefaultConfig)
    /\ InitCallers(Database(<<>>, <<>>, <<>>, <<>>), requests)

NextGateway == NextChat \/ NextMemory

SpecGateway == InitGateway /\ [][NextGateway]_vars

\* a configuration that leaves a turn without a model
BlankConfig == [text_default_model |-> <<>>, vision_default_model |-> <<" ">>]

\* chat turns, a memory caller and a set_config call side by side: the turns
\* stream and are buffered in turn, the memory caller stores or queries, and
\* the set_config call blanks the configuration
InitLocks ==
  \E r \in {OtherRequest(1), OtherRequest(2)} :
    /\ InitTurns(Turns, DefaultConfig, ValidSecret, {1},
                 [t \in Turns |-> PlainRequest(IF t % 2 = 0 THEN Some(FALSE) ELSE None)],
                 OnlyFirst(<<NL>>, <<>>))
    /\ InitUpdaters({1}, DefaultConfig, [u \in Callers |-> BlankConfig])
    /\ InitCallers(Database(<<>>, <<>>, <<>>, <<>>),
                   [m \in Callers |-> IF m = 1 THEN r ELSE NoRequest])

NextLocks == NextChat \/ NextMemory \/ NextConfig

SpecLocks == InitLocks /\ [][NextLocks]_vars

\* ------------------------------------------------------------ properties
\* What the upstream text says, read off the text as a whole: its complete
\* frames, their data payloads in order, cut before the first [DONE].
RECURSIVE DataPayloads(_)
DataPayloads(ls) ==
  IF ls = <<>> THEN <<>>
  ELSE IF Head(ls) # <<>> /\ Head(Head(ls)) = DataPrefix
  THEN <<Trim(Tail(Head(ls)))>> \o DataPayloads(Tail(ls))
  ELSE DataPayloads(Tail(ls))

RECURSIVE FramePayloads(_)
FramePayloads(text) ==
  LET b == FindBoundary(text)
  IN IF b = 0 THEN <<>>
     ELSE DataPayloads(Lines(SubSeq(text, 1, b - 1)))
            \o FramePayloads(SubSeq(text, b + 2, Len(text)))

HasDone(text) == \E i \in 1..Len(FramePayloads(text)) : FramePayloads(text)[i] = <<DoneSentinel>>

PayloadsBeforeDone(text) ==
  LET ps == FramePayloads(text)
      dones == {i \in 1..Len(ps) : ps[i] = <<DoneSentinel>>}
      first == IF dones = {} THEN Len(ps) + 1 ELSE CHOOSE i \in dones : \A j \in dones : i <= j
  IN SubSeq(ps, 1, first - 1)

IsDeltaPayload(p) ==
  /\ Len(p) >= 3
  /\ p[1] = JsonOpen
  /\ p[Len(p)] = JsonClose
  /\ \A i \in 2..(Len(p) - 1) : p[i] \in StringChars

DeltaText(p) == SubSeq(p, 2, Len(p) - 1)

RECURSIVE ExpectedDeltas(_)
ExpectedDeltas(ps) ==
  IF ps = <<>> THEN <<>>
  ELSE IF IsDeltaPayload(Head(ps)) THEN <<DeltaText(Head(ps))>> \o ExpectedDeltas(Tail(ps))
  ELSE ExpectedDeltas(Tail(ps))

RECURSIVE ExpectedReason(_)
ExpectedReason(ps) ==
  IF ps = <<>> THEN "stop"
  ELSE IF ps[Len(ps)] = <<JsonFinish>> THEN "length"
  ELSE ExpectedReason(SubSeq(ps, 1, Len(ps) - 1))

IsPrefix(a, b) == Len(a) <= Len(b) /\ SubSeq(b, 1, Len(a)) = a

EventsOf(t, kind) == {i \in 1..Len(events[t]) : events[t][i].event = kind}

\* the texts of the delta events of turn t, in emission order
DeltaTexts(t) ==
  [i \in 1..Cardinality(EventsOf(t, "delta")) |-> events[t][i + 1].data.text]

RowsOf(t) == {i \in 1..Len(history) : history[i].id = ChatId(t)}

Streaming(t) == IsSome(payload[t]) /\ Unwrap(payload[t]).stream

\* C1: every streaming turn whose stream has ended, by [DONE] or by a failed
\* read of the upstream body, has had its history write invoked exactly once,
\* with the text accumulated so far.
C1_HistoryWrittenOncePerEndedStream ==
  \A t \in Turns :
    (pc[t] = "ended" /\ term[t] \in {"sentinel", "fail"}) => store_calls[t] = <<full[t]>>

\* C2: a turn causes at most one history insert (and one store_history call),
\* a turn whose store_history has been called is past every delta, and no step
\* adds a delta event to a turn whose store_history has been called.
C2_StoreCalled(t) == store_calls[t] # <<>>

C2_State ==
  \A t \in Turns :
    /\ Cardinality(RowsOf(t)) <= 1
    /\ Len(store_calls[t]) <= 1
    /\ RowsOf(t) # {} => C2_StoreCalled(t)
    /\ C2_StoreCalled(t) => pc[t] \in {"store", "insert", "ended", "responded", "dropped"}

C2_Step ==
  \A t \in Turns :
    C2_StoreCalled(t) =>
      Cardinality({i \in 1..Len(events'[t]) : events'[t][i].event = "delta"})
        = Cardinality(EventsOf(t, "delta"))

C2_AtMostOneInsertAfterLastDelta == [](C2_State) /\ [][C2_Step]_vars

C2_Witness ==
  \E t \in Turns, u \in Turns :
    /\ t # u
    /\ pc[t] = "ended" /\ Cardinality(RowsOf(t)) = 1 /\ EventsOf(t, "delta") # {}
    /\ pc[u] = "insert" /\ Streaming(u)

\* C3: the events of a stream are one meta event, then delta events whose
\* texts are, in order, the non-empty deltas of the payloads received, then,
\* once the stream has ended, exactly one done event, which is the last event.
C3_EventOrder ==
  \A t \in Turns :
    LET e == events[t]
        n == Len(e)
        expected == ExpectedDeltas(PayloadsBeforeDone(received[t]))
    IN /\ n >= 1 => e[1].event = "meta" /\ e[1].data.model = model_id[t]
       /\ \A i \in 2..n : e[i].event \in {"delta", "done"}
       /\ \A i \in 1..n : e[i].event = "done" => i = n /\ pc[t] = "ended"
       /\ pc[t] = "ended" => n >= 2 /\ e[n].event = "done"
       /\ IsPrefix(DeltaTexts(t), expected)
       /\ (pc[t] = "ended" /\ term[t] \in {"sentinel", "eof"}) => DeltaTexts(t) = expected

C3_Witness ==
  /\ pc[1] = "ended"
  /\ term[1] = "eof"
  /\ DeltaTexts(1) = <<<<"a">>, <<CharE9>>>>
  /\ Len(events[1]) = 4

\* C4: when a stream has run to its end, the delta events and the accumulated
\* text are those of the whole upstream byte sequence decoded as one chunk,
\* however the sequence was cut into chunks.
C4_Whole(t) == ExpectedDeltas(PayloadsBeforeDone(from_utf8_lossy(script[t])))

C4_ChunkBoundaryInsensitive ==
  \A t \in Turns :
    (pc[t] = "ended" /\ term[t] \in {"sentinel", "eof"}) =>
      /\ DeltaTexts(t) = C4_Whole(t)
      /\ full[t] = Concat(C4_Whole(t))

\* C5: when [DONE] is decoded, store_history is called once with the text
\* accumulated before it and no done event precedes the write; the done event
\* carries the last finish reason seen before [DONE] ("stop" if none); and
\* payloads after [DONE] add no event and no text to the row written.
C5_SentinelStopsDecoding ==
  \A t \in Turns :
    term[t] = "sentinel" =>
      LET before == PayloadsBeforeDone(received[t])
          text == Concat(ExpectedDeltas(before))
      IN /\ HasDone(received[t])
         /\ store_calls[t] = <<text>>
         /\ pc[t] \in {"store", "insert", "ended", "dropped"}
         /\ pc[t] # "ended" => EventsOf(t, "done") = {} /\ RowsOf(t) = {}
         /\ DeltaTexts(t) = ExpectedDeltas(before)
         /\ pc[t] = "ended" =>
              events[t][Len(events[t])] = DoneEvent(ExpectedReason(before))
         /\ \A i \in RowsOf(t) :
              history[i] = HistoryRow(req[t].messages, text, model_id[t], "openrouter", ChatId(t), stamp[t])

C5_Witness ==
  /\ term[1] = "sentinel"
  /\ pc[1] = "ended"
  /\ script[1] = FrameTwoLines \o FrameDoneThenDelta
  /\ events[1][Len(events[1])] = DoneEvent("length")
  /\ RowsOf(1) # {}
  /\ full[1] = <<"a">>

\* C6: when a read of the upstream body fails, the stream has ended with
\* exactly one done event, the last event, whose finish_reason is "error" and
\* whose error is the failure detail, whatever finish reason was tracked.
C6_ReadFailureEndsStream ==
  \A t \in Turns :
    term[t] = "fail" =>
      /\ pc[t] = "ended"
      /\ Cardinality(EventsOf(t, "done")) = 1
      /\ events[t][Len(events[t])].data = [finish_reason |-> "error", error |-> ReadError]

C6_Witness ==
  /\ term[1] = "fail"
  /\ finish_reason[1] = "length"
  /\ EventsOf(1, "delta") # {}
  /\ events[1][Len(events[1])].data.finish_reason = "error"

IsBlank(s) == \A i \in 1..Len(s) : s[i] \in {" ", "\n"}

Handled(t) == IsSome(response[t]) \/ IsSome(payload[t])

ResponseCode(t) ==
  IF IsSome(response[t]) /\ Unwrap(response[t]).status # 200
  THEN Unwrap(response[t]).body.code
  ELSE "none"

\* the override of turn t counts: it is present and not blank
OverrideGiven(t) == IsSome(req[t].model_override) /\ ~IsBlank(Unwrap(req[t].model_override))

\* s without the whitespace before its first and after its last other character
Stripped(s) ==
  LET solid == {i \in 1..Len(s) : s[i] \notin {" ", "\n"}}
      lo == CHOOSE i \in solid : \A j \in solid : i <= j
      hi == CHOOSE i \in solid : \A j \in solid : j <= i
  IN IF solid = {} THEN <<>> ELSE SubSeq(s, lo, hi)

\* C7: a non-blank override decides the model, with or without an image;
\* otherwise an image selects vision_default_model and no image selects
\* text_default_model, and a blank selected default ends the request with
\* 400 model_missing, the other default never standing in for it.
C7_ResolutionPriority ==
  \A t \in Turns :
    Handled(t) =>
      LET default == IF IsSome(req[t].image) THEN config.vision_default_model
                     ELSE config.text_default_model
      IN IF OverrideGiven(t)
         THEN /\ Stripped(model_id[t]) = Stripped(Unwrap(req[t].model_override))
              /\ ResponseCode(t) # "model_missing"
         ELSE IF IsBlank(default)
         THEN /\ Unwrap(response[t]).status = 400
              /\ ResponseCode(t) = "model_missing"
              /\ payload[t] = None
              /\ pc[t] = "responded"
         ELSE /\ model_id[t] = default
              /\ ResponseCode(t) # "model_missing"

C7_Witness ==
  /\ Handled(1)
  /\ req[1].model_override = Some(<<" ">>)
  /\ IsSome(req[1].image)
  /\ IsBlank(config.vision_default_model)
  /\ ~IsBlank(config.text_default_model)
  /\ ResponseCode(1) = "model_missing"

\* C8 as claimed: a non-blank override is the resolved model identifier,
\* character for character, surrounding whitespace included.
C8_OverrideVerbatim ==
  \A t \in Turns :
    (Handled(t) /\ OverrideGiven(t)) => model_id[t] = Unwrap(req[t].model_override)

\* C8 as amended: a non-blank override is resolved to the override without its
\* leading and trailing whitespace (to the override itself if it has none).
C8_OverrideTrimmed ==
  \A t \in Turns :
    (Handled(t) /\ OverrideGiven(t)) =>
      LET o == Unwrap(req[t].model_override)
      IN /\ model_id[t] = Stripped(o)
         /\ (~IsSpace(o[1]) /\ ~IsSpace(o[Len(o)])) => model_id[t] = o

C8_Witness ==
  /\ Handled(1)
  /\ req[1].model_override = Some(<<" ", "m", " ">>)
  /\ model_id[1] = <<"m">>

\* C9: the provider is always "openrouter"; the model is the identifier after
\* its leading "openrouter:" if it has one and the whole identifier if not;
\* and no chat response carries the code provider_unsupported.
C9_ProviderAlwaysOpenrouter ==
  \A t \in Turns :
    /\ ResponseCode(t) # "provider_unsupported"
    /\ (Handled(t) /\ ResponseCode(t) # "model_missing") =>
         /\ provider[t] = <<"openrouter">>
         /\ IF Len(model_id[t]) >= 2 /\ model_id[t][1] = "openrouter" /\ model_id[t][2] = ":"
            THEN model_id[t] = <<"openrouter", ":">> \o model[t]
            ELSE model[t] = model_id[t]
         /\ IsSome(payload[t]) => Unwrap(payload[t]).model = model[t]

C9_Witness ==
  /\ pc[1] = "send"
  /\ model_id[1] = <<"m", ":", "m">>
  /\ model[1] = <<"m", ":", "m">>
  /\ provider[1] = <<"openrouter">>

\* C10: with an image, exactly one outbound message carries it: the last user
\* message, rewritten to its text plus the image, all else equal to the input;
\* or, with no user message, one appended user message of empty text and the
\* image after the unchanged input.  Without an image the output is the input.
C10_Carriers(out) == {i \in 1..Len(out) : out[i].content.kind = "parts"}

C10_Same(out, m, i) ==
  out[i].role = m[i].role /\ out[i].content = [kind |-> "string", text |-> m[i].content]

C10_ImageOnLastUser ==
  \A t \in Turns :
    IsSome(payload[t]) =>
      LET m == req[t].messages
          out == Unwrap(payload[t]).messages
          users == {i \in 1..Len(m) : m[i].role = "user"}
      IN IF req[t].image = None
         THEN Len(out) = Len(m) /\ \A i \in 1..Len(m) : C10_Same(out, m, i)
         ELSE LET url == <<"data:", Unwrap(req[t].image).mime, ";base64,",
                           Unwrap(req[t].image).base64>>
              IN /\ Cardinality(C10_Carriers(out)) = 1
                 /\ IF users # {}
                    THEN /\ Len(out) = Len(m)
                         /\ \A i \in 1..Len(m) :
                              IF i \in users /\ \A j \in users : j <= i
                              THEN /\ out[i].role = "user"
                                   /\ out[i].content =
                                        [kind |-> "parts", text |-> m[i].content, url |-> url]
                              ELSE C10_Same(out, m, i)
                    ELSE /\ Len(out) = Len(m) + 1
                         /\ \A i \in 1..Len(m) : C10_Same(out, m, i)
                         /\ out[Len(out)] =
                              [role |-> "user",
                               content |-> [kind |-> "parts", text |-> <<>>, url |-> url]]

C10_Witness ==
  /\ IsSome(payload[1])
  /\ IsSome(req[1].image)
  /\ Len(req[1].messages) = 3
  /\ req[1].messages[1].role = "user"
  /\ req[1].messages[2].role = "user"
  /\ req[1].messages[3].role = "assistant"
  /\ C10_Carriers(Unwrap(payload[1]).messages) = {2}


\* the model resolution of turn t fails: no override counts and the default
\* the request selects is blank
ResolutionFails(t) == ~resolve_model(req[t], config).ok

\* the keyring holds no key, or a blank one
KeyMissing == ~get_openrouter_key(secret).ok

\* C11: a chat call whose model resolution fails, or whose credential is
\* missing or blank, ends with a 4xx error (model_missing, key_missing) before
\* any upstream request is made, with no event and no history record; the
\* credential is read at most once per call, and only after resolution succeeded.
C11_RejectedBeforeUpstream ==
  \A t \in Turns :
    /\ key_lookups[t] <= 1
    /\ key_lookups[t] = 1 => ~ResolutionFails(t)
    /\ Handled(t) =>
         /\ ResolutionFails(t) => ResponseCode(t) = "model_missing"
         /\ (~ResolutionFails(t) /\ KeyMissing) => ResponseCode(t) = "key_missing"
    /\ ResponseCode(t) \in {"model_missing", "key_missing"} =>
         /\ Unwrap(response[t]).status \in 400..499
         /\ pc[t] = "responded"
         /\ payload[t] = None
         /\ events[t] = <<>>
         /\ store_calls[t] = <<>>
         /\ RowsOf(t) = {}

C11_Witness ==
  /\ ResponseCode(1) = "key_missing"
  /\ key_lookups[1] = 1
  /\ secret = Some(<<" ">>)


\* C12: when the upstream fails before any content (the send fails, or the
\* status is not a success), streaming or buffered, the caller gets one 502
\* openrouter_error carrying the upstream's text, no event is sent, no history
\* write is attempted, and the step leaves the store as it was.
C12_State ==
  \A t \in Turns :
    term[t] = "refused" =>
      /\ pc[t] = "responded"
      /\ response[t] \in {Some(error_response(502, "openrouter_error", m)) : m \in Refusals}
      /\ events[t] = <<>>
      /\ store_calls[t] = <<>>
      /\ RowsOf(t) = {}

C12_Step ==
  \A t \in Turns :
    (term[t] # "refused" /\ term'[t] = "refused") =>
      UNCHANGED <<history, pinned, presets, settings, db_lock>>

C12_RefusalIsOneGatewayError == [](C12_State) /\ [][C12_Step]_vars

C12_Witness ==
  /\ term[1] = "refused" /\ Streaming(1)
  /\ term[2] = "refused" /\ ~Streaming(2)
  /\ Unwrap(response[1]).body.error = "OpenRouter error (status): text"
  /\ Unwrap(response[2]).body.error = "transport error"


\* the assistant message store_history makes of a reply
Assistant(text) == [role |-> "assistant", content |-> text]

\* the buffered call of turn t has returned its completion
BufferedOk(t) == ~Streaming(t) /\ IsSome(response[t]) /\ Unwrap(response[t]).status = 200

\* what C13 says of a returned buffered call but for the stored message list
C13_Answer(t) ==
  /\ pc[t] = "responded"
  /\ Cardinality(RowsOf(t)) = 1
  /\ Unwrap(response[t]).body =
       [text |-> full[t], model |-> resolve_model(req[t], config).value,
        provider |-> "openrouter"]
  /\ StartsWith(Unwrap(response[t]).body.model, PREFIX)

\* C13 as stated: a successful buffered call has written exactly one history
\* record when it returns {text, model, provider}, the model being the whole
\* resolved identifier, and the record holds the request's own messages
\* followed by an assistant message with that text.
C13_AssistantAlwaysStored ==
  \A t \in Turns :
    BufferedOk(t) =>
      /\ C13_Answer(t)
      /\ \A i \in RowsOf(t) :
           history[i].messages_json =
             to_string(Append(req[t].messages, Assistant(Unwrap(response[t]).body.text)))

\* C13 as the code has it: the assistant message follows the request's own
\* messages when the text is not blank; a text that is empty or only
\* whitespace is returned but the record holds the request's messages alone.
C13_AssistantStoredUnlessBlank ==
  \A t \in Turns :
    BufferedOk(t) =>
      /\ C13_Answer(t)
      /\ \A i \in RowsOf(t) :
           LET text == Unwrap(response[t]).body.text
           IN history[i].messages_json =
                to_string(IF IsBlank(text) THEN req[t].messages
                          ELSE Append(req[t].messages, Assistant(text)))

C13_Witness ==
  /\ BufferedOk(1)
  /\ Unwrap(response[1]).body.text = <<"a">>
  /\ IsSome(req[1].image)
  /\ Len(req[1].messages) = 2
  /\ Len(history) = 1
  /\ Unwrap(response[1]).body.model = <<"openrouter", ":", "m", "m">>

\* C14 as stated: store_history writes one record holding the turn's
\* messages in order, followed by one assistant message whenever the reply is
\* not empty, a reply of whitespace included.
C14_NonEmptyReplyStored ==
  \A t \in Turns :
    /\ Cardinality(RowsOf(t)) <= 1
    /\ \A i \in RowsOf(t) :
         history[i].messages_json =
           to_string(IF full[t] = <<>> THEN req[t].messages
                     ELSE Append(req[t].messages, Assistant(full[t])))

\* C14 as the code has it: the record holds the turn's messages in order,
\* followed by one assistant message whenever the reply has a character that
\* is not whitespace; an empty or whitespace-only reply is left out.
C14_NonBlankReplyStored ==
  \A t \in Turns :
    /\ Cardinality(RowsOf(t)) <= 1
    /\ \A i \in RowsOf(t) :
         /\ history[i].messages_json =
              to_string(IF Stripped(full[t]) = <<>> THEN req[t].messages
                        ELSE Append(req[t].messages, Assistant(full[t])))
         /\ history[i].model = Some(model_id[t])
         /\ history[i].provider = Some("openrouter")

C14_Witness ==
  /\ RowsOf(1) # {}
  /\ full[1] = <<" ">>
  /\ Len(req[1].messages) = 2
  /\ req[1].messages[1].role = "system"
  /\ req[1].messages[2].role = "user"


\* caller m asks to store a record of a type that is none of the four
Unsupported(m) == mreq[m].route = "store" /\ mreq[m].type \notin SupportedTypes

\* caller m asks to store a record of one of the four types
Supported(m) == mreq[m].route = "store" /\ mreq[m].type \in SupportedTypes

Answered(m) == mpc[m] = "responded"

StoreFailed(m) ==
  /\ IsSome(mresp[m])
  /\ Unwrap(mresp[m]).status # 200
  /\ Unwrap(mresp[m]).body.code = "memory_store_failed"

\* C15: a store call with a type outside {history, pinned, preset, settings}
\* returns an error, and no step of that call changes any of the four tables.
C15_State ==
  \A m \in Callers :
    (Unsupported(m) /\ Answered(m)) =>
      /\ StoreFailed(m)
      /\ Unwrap(mresp[m]).body.error = "Unsupported memory type."

C15_Step ==
  \A m \in Callers :
    (Unsupported(m) /\ mpc'[m] # mpc[m]) => UNCHANGED <<history, pinned, presets, settings>>

C15_UnsupportedTypeRejected == [](C15_State) /\ [][C15_Step]_vars

C15_Witness ==
  /\ Unsupported(1) /\ Answered(1)
  /\ mreq[1].payload = AllMembers
  /\ Answered(2)
  /\ Len(pinned) = 4
  /\ pinned[4].id = MemoryId(2)


\* the table a supported type is stored in
TableOf(type) ==
  CASE type = "history" -> history
    [] type = "pinned" -> pinned
    [] type = "preset" -> presets
    [] type = "settings" -> settings

\* the rows of a table that carry the id drawn for caller m
StoredBy(table, m) == {i \in DOMAIN table : table[i].id = MemoryId(m)}

StoreSucceeded(m) == Answered(m) /\ Unwrap(mresp[m]).status = 200

\* the text kept of member `name` of the payload of caller m, or `default`
C16_Member(m, name, default) ==
  LET members == mreq[m].payload.fields
  IN IF name \in DOMAIN members THEN members[name].text ELSE default

\* the row is the one the request of caller m asks for, absent members
\* standing as their defaults
C16_AsAsked(m, row) ==
  CASE mreq[m].type = "history" ->
         /\ row.model = None /\ row.provider = None
         /\ mreq[m].payload = NoMembers => row.messages_json = <<"{", "}">>
    [] mreq[m].type = "pinned" ->
         /\ row.text = C16_Member(m, "text", <<>>)
         /\ row.tags_json = Some(C16_Member(m, "tags", <<"[", "]">>))
    [] mreq[m].type = "preset" ->
         /\ row.name = C16_Member(m, "name", <<"Untitled">>)
         /\ row.system_prompt = Some(C16_Member(m, "system_prompt", <<>>))
         /\ row.constraints_json = Some(C16_Member(m, "constraints", <<"{", "}">>))
         /\ row.routing_policy_json = Some(C16_Member(m, "routing_policy", <<"{", "}">>))
    [] mreq[m].type = "settings" ->
         /\ row.key = C16_Member(m, "key", <<"unknown">>)
         /\ row.value_json = C16_Member(m, "value", <<"null">>)

C16_State ==
  \A m \in Callers :
    (Supported(m) /\ Answered(m)) =>
      LET table == TableOf(mreq[m].type)
      IN IF StoreSucceeded(m)
         THEN /\ Cardinality(StoredBy(table, m)) = 1
              /\ \A type \in SupportedTypes \ {mreq[m].type} : StoredBy(TableOf(type), m) = {}
              /\ \A i \in StoredBy(table, m) :
                   /\ Unwrap(mresp[m]).body =
                        [id |-> table[i].id, stored_at |-> table[i].created_at]
                   /\ C16_AsAsked(m, table[i])
         ELSE /\ StoreFailed(m)
              /\ Unwrap(mresp[m]).body.error = "storage error"
              /\ \A type \in SupportedTypes : StoredBy(TableOf(type), m) = {}

\* every step keeps every row of every table and adds at most one row
C16_Step ==
  /\ IsPrefix(history, history') /\ IsPrefix(pinned, pinned')
  /\ IsPrefix(presets, presets') /\ IsPrefix(settings, settings')
  /\ Len(history') + Len(pinned') + Len(presets') + Len(settings')
       <= Len(history) + Len(pinned) + Len(presets) + Len(settings) + 1

\* C16: a store of a supported type does not fail for an absent payload
\* member: it adds one row to that type's table, absent members taking their
\* defaults, returns that row's id and timestamp, and leaves the other tables
\* and all earlier rows as they were; no store, query or chat step ever
\* changes or removes a row.
C16_StoreAppendsOneRow == [](C16_State) /\ [][C16_Step]_vars

C16_Witness ==
  /\ Supported(1) /\ mreq[1].type = "preset" /\ mreq[1].payload = NoMembers
  /\ StoreSucceeded(1)
  /\ StoreSucceeded(2)
  /\ pc[1] = "responded" /\ Len(history) = 1
  /\ Len(presets) = 1 /\ presets[1].name = <<"Untitled">>
  /\ Len(pinned) = 1 /\ pinned[1].created_at < presets[1].created_at


\* caller m asked a query and has its items
QueryAnswered(m) ==
  /\ mreq[m].route = "query"
  /\ Answered(m)
  /\ Unwrap(mresp[m]).status = 200

\* the limit the query of caller m asks for
AskedLimit(m) == IF IsSome(mreq[m].limit) THEN Unwrap(mreq[m].limit) ELSE 20

ItemKinds == {"history", "pinned", "preset"}

\* the places of the items of one kind in an item list
OfKind(items, kind) == {i \in DOMAIN items : items[i].type = kind}

\* C17: whatever the query and the limit (absent: 20; zero and negative
\* included), the result holds no more than limit items of any one kind (none
\* for a limit below zero), and the items of one kind come latest first.
C17_AtMostLimitPerKind ==
  \A m \in Callers :
    QueryAnswered(m) =>
      LET items == Unwrap(mresp[m]).body.items
          most == IF AskedLimit(m) < 0 THEN 0 ELSE AskedLimit(m)
      IN \A kind \in ItemKinds :
           /\ Cardinality(OfKind(items, kind)) <= most
           /\ \A i, j \in OfKind(items, kind) :
                i < j => items[i].payload.created_at >= items[j].payload.created_at


\* place of a kind in a result
Rank(kind) == CASE kind = "history" -> 1 [] kind = "pinned" -> 2 [] kind = "preset" -> 3

\* the table the items of a kind are read from
ItemTable(kind) ==
  CASE kind = "history" -> history [] kind = "pinned" -> pinned [] kind = "preset" -> presets

\* the field of a row that the query is matched against
Searched(kind, row) ==
  CASE kind = "history" -> row.messages_json
    [] kind = "pinned" -> row.text
    [] kind = "preset" -> row.name

\* the step in which the query of caller m returns its items
QueryReturns(m) ==
  /\ mreq[m].route = "query"
  /\ mpc[m] = "run" /\ mpc'[m] = "responded"
  /\ Unwrap(mresp'[m]).status = 200

Smaller(a, b) == IF a < b THEN a ELSE b

\* the item shows the row: same id and timestamp, and the row's own text
C18_Shows(kind, item, row) ==
  /\ item.payload.id = row.id
  /\ item.payload.created_at = row.created_at
  /\ CASE kind = "history" -> item.payload.messages = row.messages_json
       [] kind = "pinned" -> item.payload.text = row.text
       [] kind = "preset" -> item.payload.name = row.name

C18_Result(m) ==
  LET items == Unwrap(mresp'[m]).body.items
      like == <<"%">> \o mreq[m].query \o <<"%">>
  IN /\ \A i, j \in DOMAIN items : i < j => Rank(items[i].type) <= Rank(items[j].type)
     /\ \A i, j \in DOMAIN items : i # j => items[i].payload.id # items[j].payload.id
     /\ \A i \in DOMAIN items :
          /\ items[i].type \in ItemKinds
          /\ \E k \in DOMAIN ItemTable(items[i].type) :
               C18_Shows(items[i].type, items[i], ItemTable(items[i].type)[k])
     /\ AskedLimit(m) >= 0 =>
          \A kind \in ItemKinds :
            Cardinality(OfKind(items, kind)) =
              Smaller(AskedLimit(m),
                      Cardinality({k \in DOMAIN ItemTable(kind) :
                                     LikeMatch(like, Searched(kind, ItemTable(kind)[k]))}))

C18_Step ==
  \A m \in Callers :
    /\ QueryReturns(m) => C18_Result(m)
    /\ (mreq[m].route = "query" /\ mpc'[m] # mpc[m]) =>
         UNCHANGED <<history, pinned, presets, settings>>

\* C18: a result is one flat list, history items before pinned items before
\* preset items, each tagged with the kind of the table its row is in; a limit
\* that is not negative cuts each table's matches on its own, so up to three
\* times the limit come back; and no step of a query changes a table.
C18_FlatTaggedPerTableLimit == [][C18_Step]_vars

C18_Witness ==
  /\ QueryAnswered(1)
  /\ mreq[1].limit = Some(1) /\ mreq[1].query = <<"a">>
  /\ Len(Unwrap(mresp[1]).body.items) = 3
  /\ Unwrap(mresp[1]).body.items[1].type = "history"
  /\ Unwrap(mresp[1]).body.items[2].type = "pinned"
  /\ Unwrap(mresp[1]).body.items[3].type = "preset"
  /\ Len(pinned) = 3


\* q occurs in text, character for character
Contains(text, q) ==
  \E i \in 0..(Len(text) - Len(q)) : SubSeq(text, i + 1, i + Len(q)) = q

\* the rows of a kind's table that hold the query of caller m as a substring
C19_Eligible(m, kind) ==
  {k \in DOMAIN ItemTable(kind) : Contains(Searched(kind, ItemTable(kind)[k]), mreq[m].query)}

C19_Result(m) ==
  LET items == Unwrap(mresp'[m]).body.items
  IN /\ \A i \in DOMAIN items :
          /\ items[i].type \in ItemKinds
          /\ \E k \in C19_Eligible(m, items[i].type) :
               items[i].payload.id = ItemTable(items[i].type)[k].id
     /\ \A kind \in ItemKinds :
          (AskedLimit(m) < 0 \/ Cardinality(OfKind(items, kind)) < AskedLimit(m)) =>
             \A k \in C19_Eligible(m, kind) :
               \E i \in OfKind(items, kind) : items[i].payload.id = ItemTable(kind)[k].id

C19_Step == \A m \in Callers : QueryReturns(m) => C19_Result(m)

\* C19: a row is returned only if the query text occurs, character for
\* character, in its searched field (the serialized messages of a history row,
\* the text of a pinned row, the name of a preset), no character of the query
\* standing for anything else; every such row is returned unless the limit
\* cuts it; and no settings row is ever returned.
C19_LiteralSubstringMatch == [][C19_Step]_vars


ClientError(r) == r.status \in 400..499
ServerError(r) == r.status \in 500..599

\* C20: every failure of a route is answered with JSON {error, code} whose
\* status class tells the cause: 4xx for what the caller can fix (a blank
\* default model, a missing key, an unsupported memory type), 5xx for a
\* failing upstream and for a failing storage, the storage failures of the
\* memory store and memory query routes included.
C20_StatusClassTellsCause ==
  /\ \A t \in Turns :
       (IsSome(response[t]) /\ Unwrap(response[t]).status # 200) =>
         LET r == Unwrap(response[t])
         IN /\ DOMAIN r.body = {"error", "code"}
            /\ r.body.code \in {"model_missing", "key_missing"} => ClientError(r)
            /\ (term[t] = "refused" \/ r.body.error \in {"invalid body", "storage error"})
                 => ServerError(r)
  /\ \A m \in Callers :
       (IsSome(mresp[m]) /\ Unwrap(mresp[m]).status # 200) =>
         LET r == Unwrap(mresp[m])
         IN /\ DOMAIN r.body = {"error", "code"}
            /\ r.body.error = "Unsupported memory type." => ClientError(r)
            /\ r.body.error = "storage error" => ServerError(r)


\* the events a stream that ran to its end owes to the text it received
OwedEvents(t) ==
  LET before == PayloadsBeforeDone(received[t])
      deltas == ExpectedDeltas(before)
  IN <<MetaEvent(model_id[t])>> \o [i \in 1..Len(deltas) |-> DeltaEvent(deltas[i])]
       \o <<DoneEvent(ExpectedReason(before))>>

\* a stream that ran to its end has the events owed to the text it received,
\* whether its history row was written or not
C21_State ==
  \A t \in Turns :
    (Streaming(t) /\ pc[t] = "ended" /\ term[t] \in {"sentinel", "eof"}) =>
      events[t] = OwedEvents(t)

\* the step that ends the history write of a stream adds the done event with
\* the tracked finish reason and nothing else, whether a row was added or not
C21_Step ==
  \A t \in Turns :
    (Streaming(t) /\ pc[t] = "insert" /\ pc'[t] # "insert") =>
      /\ events'[t] = Append(events[t], DoneEvent(finish_reason[t]))
      /\ pc'[t] = "ended"
      /\ response'[t] = response[t]

\* C21: a failed history write at the end of a stream changes nothing the
\* caller sees: the meta and delta events are those already delivered and the
\* done event follows with the tracked finish reason, the same events as in a
\* run whose write succeeded.
C21_FailedWriteUnseen == [](C21_State) /\ [][C21_Step]_vars

C21_Witness ==
  /\ Streaming(1) /\ pc[1] = "ended" /\ term[1] = "sentinel"
  /\ Streaming(2) /\ pc[2] = "ended" /\ term[2] = "sentinel"
  /\ RowsOf(1) = {} /\ store_calls[1] # <<>>
  /\ RowsOf(2) # {}
  /\ events[1] = events[2]
  /\ Len(events[1]) = 3


\* the tasks that are inside a database operation
InsideDb ==
  {ChatTask(t) : t \in {u \in Turns : pc[u] = "insert"}}
    \cup {MemoryTask(m) : m \in {c \in Callers : mpc[c] = "run"}}

\* the ids of the rows of a table, in insertion order
IdsOf(table) == [i \in DOMAIN table |-> table[i].id]

AllIds == IdsOf(history) \o IdsOf(pinned) \o IdsOf(presets) \o IdsOf(settings)

\* the row the store request of caller m asks for
C22_RowAsked(m) ==
  CASE mreq[m].type = "history" -> StoredHistoryRow(mreq[m].payload, MemoryId(m), mstamp[m])
    [] mreq[m].type = "pinned" -> PinnedRow(mreq[m].payload, MemoryId(m), mstamp[m])
    [] mreq[m].type = "preset" -> PresetRow(mreq[m].payload, MemoryId(m), mstamp[m])
    [] mreq[m].type = "settings" -> SettingsRow(mreq[m].payload, MemoryId(m), mstamp[m])

C22_State ==
  /\ Cardinality(InsideDb) <= 1
  /\ InsideDb = (IF IsSome(db_lock) THEN {Unwrap(db_lock)} ELSE {})
  /\ \A i, j \in DOMAIN AllIds : i # j => AllIds[i] # AllIds[j]
  /\ \A i \in DOMAIN AllIds :
       \/ \E t \in Turns : AllIds[i] = ChatId(t) /\ pc[t] \in {"ended", "responded"}
       \/ \E m \in Callers : AllIds[i] = MemoryId(m) /\ Supported(m) /\ StoreSucceeded(m)
  /\ \A t \in Turns :
       /\ \A i \in RowsOf(t) :
            history[i] = HistoryRow(req[t].messages, full[t], model_id[t], "openrouter",
                                    ChatId(t), stamp[t])
       /\ BufferedOk(t) => Cardinality(RowsOf(t)) = 1
  /\ \A m \in Callers :
       (Supported(m) /\ StoreSucceeded(m)) =>
         /\ Cardinality(StoredBy(TableOf(mreq[m].type), m)) = 1
         /\ \A i \in StoredBy(TableOf(mreq[m].type), m) :
              TableOf(mreq[m].type)[i] = C22_RowAsked(m)

\* a table changes, and a query gets its items, only in a step of the task
\* that holds the lock, which gives the lock up in that step
C22_Step ==
  /\ <<history, pinned, presets, settings>>' # <<history, pinned, presets, settings>> =>
       IsSome(db_lock) /\ db_lock' = None
  /\ \A m \in Callers : QueryReturns(m) => db_lock = Some(MemoryTask(m)) /\ db_lock' = None

\* C22: one exclusive lock serializes every database read and write: at most
\* one request is inside a database operation at a time, and however chat
\* completions and store calls interleave, each one that succeeds leaves
\* exactly one row, which holds its own request's data, and no row is lost,
\* doubled or mixed with another's.
C22_OneLockSerializesAll == [](C22_State) /\ [][C22_Step]_vars

C22_Witness ==
  /\ BufferedOk(1)
  /\ Supported(1) /\ mreq[1].type = "history" /\ StoreSucceeded(1) /\ StoreSucceeded(2)
  /\ Len(history) = 2 /\ Len(pinned) = 1
  /\ history[1].id = ChatId(1) /\ history[2].id = MemoryId(1)


\* a data payload that is structured data: a delta, an empty delta, or a
\* finish reason
WellFormed(p) == IsDeltaPayload(p) \/ p = <<JsonOpen, JsonClose>> \/ p = <<JsonFinish>>

Malformed(p) == p # <<DoneSentinel>> /\ ~WellFormed(p)

RECURSIVE WithoutMalformed(_)
WithoutMalformed(ps) ==
  IF ps = <<>> THEN <<>>
  ELSE IF Malformed(Head(ps)) THEN WithoutMalformed(Tail(ps))
  ELSE <<Head(ps)>> \o WithoutMalformed(Tail(ps))

\* C23: a data payload that is neither [DONE] nor structured data is skipped:
\* it emits no event, leaves the accumulated text and the finish reason as
\* they were and does not end the stream; what follows it, in its frame or in
\* later frames, is decoded as if it had not been there.
C23_MalformedSkipped ==
  \A t \in Turns :
    LET before == PayloadsBeforeDone(received[t])
        kept == WithoutMalformed(before)
        deltas == ExpectedDeltas(kept)
    IN /\ IsPrefix(DeltaTexts(t), deltas)
       /\ pc[t] \in {"yielded", "read"} => Len(events[t]) = 1 + Len(DeltaTexts(t))
       /\ term[t] = "sentinel" => HasDone(received[t])
       /\ term[t] = "eof" => pos[t] = Len(script[t])
       /\ (pc[t] = "ended" /\ term[t] \in {"sentinel", "eof"}) =>
            /\ DeltaTexts(t) = deltas
            /\ full[t] = Concat(deltas)
            /\ Len(events[t]) = 2 + Len(deltas)
            /\ events[t][Len(events[t])] = DoneEvent(ExpectedReason(kept))

C23_Witness ==
  /\ script[1] = FrameMalformedThenDelta \o FrameFinish
  /\ pc[1] = "ended" /\ term[1] = "eof"
  /\ events[1] = <<MetaEvent(model_id[1]), DeltaEvent(<<"a">>), DoneEvent("length")>>
  /\ full[1] = <<"a">>


\* C24: no request task holds the configuration lock or the database lock
\* while it awaits the upstream call, more upstream bytes or the event sink;
\* no task asks for one of the two locks while it holds the other; and so
\* no interleaving of chat, store, query and set_config requests deadlocks:
\* whenever a task waits for a lock, the lock is free for it or a holder of
\* that lock can take its releasing step.
Tasks ==
  {ChatTask(t) : t \in Turns} \cup {MemoryTask(m) : m \in Callers}
    \cup {ConfigTask(u) : u \in Callers}

HoldsConfig(task) == task \in config_lock.readers \/ config_lock.writer = Some(task)

HoldsDb(task) == db_lock = Some(task)

WaitsConfig(task) == \E i \in DOMAIN config_lock.queue : config_lock.queue[i].task = task

WaitsDb(task) ==
  \/ \E t \in Turns : task = ChatTask(t) /\ pc[t] = "store"
  \/ \E m \in Callers : task = MemoryTask(m) /\ mpc[m] = "lock"

\* the turn is suspended on the upstream call, the upstream bytes or the sink
AwaitsOutside(t) == pc[t] \in {"send", "sse", "yielded", "read"}

ConfigReleased == (\E t \in Turns : chat(t)) \/ (\E u \in Callers : ConfigWritten(u))

DbGranted == (\E t \in Turns : LockDb(t)) \/ (\E m \in Callers : MemoryLockDb(m))

DbReleased ==
  \/ \E t \in Turns, ok \in BOOLEAN : Insert(t, ok)
  \/ \E m \in Callers, ok \in BOOLEAN : MemoryStoreReturns(m, ok) \/ MemoryQueryReturns(m, ok)

C24_NoLockAcrossAwaitNoDeadlock ==
  /\ \A t \in Turns :
       AwaitsOutside(t) => ~HoldsConfig(ChatTask(t)) /\ ~HoldsDb(ChatTask(t))
  /\ \A task \in Tasks :
       /\ HoldsConfig(task) => ~HoldsDb(task) /\ ~WaitsDb(task)
       /\ HoldsDb(task) => ~WaitsConfig(task)
       /\ WaitsConfig(task) => ENABLED ConfigReleased
       /\ WaitsDb(task) => ENABLED DbGranted \/ ENABLED DbReleased

\* a turn holds the read guard with the set_config call queued behind it,
\* while the memory caller holds the database and another turn waits for it
C24_Witness ==
  /\ \E t \in Turns : ChatTask(t) \in config_lock.readers
  /\ \E u \in Callers : WaitsConfig(ConfigTask(u))
  /\ \E m \in Callers : HoldsDb(MemoryTask(m))
  /\ \E t \in Turns : WaitsDb(ChatTask(t))

\* C25: all through a stream the accumulated text is the concatenation, in
\* emission order, of the texts of the delta events produced so far, an empty
\* delta producing no event; and the text handed to the history write at the
\* end of the stream is the concatenation of all delta texts emitted.
C25_TextIsConcatOfDeltas ==
  \A t \in Turns :
    Streaming(t) =>
      /\ full[t] = Concat(DeltaTexts(t))
      /\ \A i \in EventsOf(t, "delta") : events[t][i].data.text # <<>>
      /\ \A i \in 1..Len(store_calls[t]) : store_calls[t][i] = Concat(DeltaTexts(t))
      /\ \A i \in RowsOf(t) :
           history[i].messages_json =
             to_string(IF IsBlank(Concat(DeltaTexts(t))) THEN req[t].messages
                       ELSE Append(req[t].messages, Assistant(Concat(DeltaTexts(t)))))

C25_Witness ==
  /\ script[1] = FrameDeltaA \o FrameDeltaSpace
  /\ pc[1] = "ended"
  /\ DeltaTexts(1) = <<<<"a">>, <<" ">>>>
  /\ store_calls[1] = <<<<"a", " ">>>>
  /\ RowsOf(1) # {}


\* the rows of a table carry timestamps that never fall along insertion order
InCommitOrder(table) ==
  \A i, j \in DOMAIN table : i < j => table[i].created_at <= table[j].created_at

\* C26: in each table the creation timestamps follow commit order: of two rows
\* of one table, the one inserted later under the lock has a timestamp that is
\* not earlier, however store and chat requests interleave.
C26_TimestampsFollowCommitOrder ==
  /\ InCommitOrder(history)
  /\ InCommitOrder(pinned)
  /\ InCommitOrder(presets)
  /\ InCommitOrder(settings)


\* C27: a started stream ends once its upstream does: with the caller
\* polling, the upstream body delivering, ending or failing, and the database
\* lock granted in the end, every stream that was opened comes to its end
\* (unless the caller went away), and its last event is then its one done
\* event. When upstream ended without [DONE], store_history was called once,
\* with the text of the complete frames, at most one row was written (none
\* only if the insert failed), done carries the tracked finish reason, and
\* the bytes left in the buffer gave no event and no text.
C27_EndedWithoutDone(t) ==
  LET ps == FramePayloads(received[t])
      text == Concat(ExpectedDeltas(ps))
  IN /\ store_calls[t] = <<text>>
     /\ full[t] = text
     /\ events[t] = OwedEvents(t)
     /\ events[t][Len(events[t])] = DoneEvent(finish_reason[t])
     /\ Cardinality(RowsOf(t)) <= 1
     /\ \A i \in RowsOf(t) :
          history[i] = HistoryRow(req[t].messages, text, model_id[t], "openrouter",
                                  ChatId(t), stamp[t])

C27_Ended ==
  \A t \in Turns :
    (Streaming(t) /\ pc[t] = "ended") =>
      /\ events[t] # <<>>
      /\ EventsOf(t, "done") = {Len(events[t])}
      /\ term[t] = "eof" => C27_EndedWithoutDone(t)

C27_StreamTerminates ==
  /\ \A t \in Turns : (pc[t] = "sse") ~> (pc[t] \in {"ended", "dropped"})
  /\ [](C27_Ended)

\* a stream came to its end without [DONE], with bytes of an unfinished
\* frame left in its buffer, after it had to wait for the database lock
C27_Witness ==
  /\ Streaming(1) /\ pc[1] = "ended" /\ term[1] = "eof"
  /\ buffer[1] = Unterminated
  /\ events[1][Len(events[1])] = DoneEvent("length")
  /\ RowsOf(1) = {2}
  /\ RowsOf(2) = {1}

====
